---- MODULE Spec2Model ----
(***************************************************************************)
(* A state-machine model of the memecoin trading bot of src/index.ts:      *)
(* the candidate cache and its refresh (fetchAndFilterMemecoins), the      *)
(* risk filter and its scoring services, candidate selection               *)
(* (chooseMemecoin), balance queries (checkBalance), the trading cycle     *)
(* (autoTrade / executeTrade) and the paper-trading ledger (paperTrade,    *)
(* GET /paper_trades).                                                     *)
(*                                                                         *)
(* The program runs on one cooperative thread: code between two awaits is  *)
(* one atomic step.  Every action below is one such step (consecutive      *)
(* awaits that only read external services and touch nothing shared are    *)
(* taken as one step, with the replies read from the environment).         *)
(*                                                                         *)
(* Units.  Time is in milliseconds, as Date.now().  Reserves are in units  *)
(* of 10^9 raw units, so that liquiditySol = baseReserve / 1_000_000_000   *)
(* is the modelled baseReserve.  Rational facts (marketCap, price) are     *)
(* pairs <<numerator, denominator>>.  SOL balances are in lamports.        *)
(* Sentiment is in hundredths, volatility in thousandths, paper amounts in *)
(* thousandths, prices in units of 0.00001 and profit/loss in units of     *)
(* 10^-8 SOL (amount x price).                                             *)
(***************************************************************************)
EXTENDS Integers, Sequences, FiniteSets, TLC

(* ---------------- program constants (src/index.ts) ---------------- *)
MIN_SAFETY_SCORE == 80
MIN_LIQUIDITY == 50000 \div 200
MAX_MARKET_CAP == 1250000 \div 200
MAX_AGE_HOURS == 48
MIN_BUYS_24H == 500
MIN_SELLS_24H == 250
MAX_OWNERSHIP == 50
CACHE_TTL_MS == 60000
MS_PER_HOUR == 1000 * 60 * 60
MARKET_CAP_FACTOR == 200
DEFAULT_BUYS_24H == 500
DEFAULT_SELLS_24H == 250
SOL_MINT == 0
NumWallets == 3
SENTIMENT_THRESHOLD == 30
VOLATILITY_CEILING == 50
TRADE_AMOUNT == 5
LAMPORTS_PER_SOL == 1000000000

(* ---------------- bounds of the model ---------------- *)
\* pools the catalog may list (pool ids 1..MaxPools)
MaxPools == 2
\* catalog downloads the rate limiter lets through in one run
MaxFetches == 2
\* clock ticks in one run
MaxTicks == 3

PoolIds == 1..MaxPools
\* one tick is a third of the cache TTL: 40 s < TTL, 60 s = TTL exactly
TickMs == CACHE_TTL_MS \div 3
\* Date.now() when the process starts; any value >= the TTL behaves alike,
\* because lastUpdate starts at 0 (epoch) and the real clock is far past it
StartClock == CACHE_TTL_MS

VARIABLES
    clock,            \* Date.now()
    ticks,            \* clock ticks taken (bounds the run)
    svc,              \* what the external services answer for each pool now
    answers,          \* what the sentiment service and the wallet RPC may answer
    cachedMemecoins,  \* let cachedMemecoins: Memecoin[]
    lastUpdate,       \* let lastUpdate
    tokensRemoved,    \* tokens taken from limiter so far
    catalogGets,      \* catalog downloads issued by fetchAndFilterMemecoins
    rf,               \* the invocations of fetchAndFilterMemecoins, by slot
    au,               \* the autoTrade cycles
    bal,              \* the checkBalance calls of each cycle, by wallet index
    execCalls,        \* the calls of executeTrade made so far, in order
    txSent,           \* the transactions submitted to the chain so far, in order
    paperTrades,      \* let paperTrades: TradeResult[]
    pt,               \* the GET /paper_trade requests in progress
    listed,           \* the last answer of GET /paper_trades
    tr                \* the GET /trade requests in progress

cacheVars == <<cachedMemecoins, lastUpdate>>
envVars == <<clock, ticks, svc, answers>>
countVars == <<tokensRemoved, catalogGets>>
tradeVars == <<au, bal, execCalls, txSent>>
paperVars == <<paperTrades, pt, listed>>
appVars == <<tradeVars, paperVars, tr>>

(* ---------------- the catalog ---------------- *)
\* A pool record of the catalog (mainnet.json, res.data.official).  Odd pools
\* have the token as base and SOL as quote, even pools have SOL as base.
PoolBaseMint(id) == IF id % 2 = 1 THEN id ELSE SOL_MINT
PoolQuoteMint(id) == IF id % 2 = 1 THEN SOL_MINT ELSE id
IsSolBase(id) == PoolBaseMint(id) = SOL_MINT
TokenMint(id) == IF IsSolBase(id) THEN PoolQuoteMint(id) ELSE PoolBaseMint(id)
\* pool.baseSymbol || pool.quoteSymbol || 'MEME': pool 1 and pool 3 carry the
\* same symbol, the others their own
TokenSymbol(id) == IF id = 3 THEN 1 ELSE id

\* the pools of one catalog answer: any subset of the pools, in catalog order
RECURSIVE SeqOfSet(_, _)
SeqOfSet(S, from) ==
    IF from > MaxPools THEN <<>>
    ELSE IF from \in S THEN <<from>> \o SeqOfSet(S, from + 1)
    ELSE SeqOfSet(S, from + 1)
Catalogs == { SeqOfSet(S, 1) : S \in SUBSET PoolIds }

(* ---------------- replies of the scoring services ---------------- *)
\* Each reply is ok (with its payload) or an error (the axios call throws).
InfoReply(ok, b, q) == [ok |-> ok, baseReserve |-> b, quoteReserve |-> q]
VolReply(ok, b, s) == [ok |-> ok, buys24h |-> b, sells24h |-> s]
NumReply(ok, v) == [ok |-> ok, val |-> v]
FlagReply(ok, v) == [ok |-> ok, flag |-> v]
FeatReply(ok, m, f, c, o) ==
    [ok |-> ok, hasMint |-> m, hasFreeze |-> f, topHoldersPercentage |-> c, owner |-> o]
Reply(c, i, v, s, r, h, f) ==
    [createdAt |-> c, info |-> i, vol |-> v, safety |-> s, risk |-> r,
     honeypot |-> h, feat |-> f]

\* x || d of JavaScript on numbers: 0 is falsy
OrDefault(x, d) == IF x = 0 THEN d ELSE x

(* ---------------- the scoring services (src/index.ts 314-416) ------------- *)
\* fetchTradingVolume: the fallback of a failed call is { 500, 250 }
fetchTradingVolume(v) ==
    IF v.ok
    THEN [buys24h |-> OrDefault(v.buys24h, DEFAULT_BUYS_24H),
          sells24h |-> OrDefault(v.sells24h, DEFAULT_SELLS_24H)]
    ELSE [buys24h |-> DEFAULT_BUYS_24H, sells24h |-> DEFAULT_SELLS_24H]

\* checkTokenSafety: response.data.safetyScore || 0, and 0 on error
checkTokenSafety(s) == IF s.ok THEN OrDefault(s.val, 0) ELSE 0

\* checkRisk: response.data.riskScore || 0, and 0 on error
checkRisk(r) == IF r.ok THEN OrDefault(r.val, 0) ELSE 0

\* checkHoneypot: response.data.isHoneypot || false, and true on error
checkHoneypot(h) == IF h.ok THEN h.flag ELSE TRUE

\* checkContractFeatures: unsafe on error
checkContractFeatures(f) ==
    IF f.ok
    THEN [hasMint |-> f.hasMint, hasFreeze |-> f.hasFreeze,
          ownershipConcentration |-> OrDefault(f.topHoldersPercentage, 0),
          isRenounced |-> ~f.owner]
    ELSE [hasMint |-> TRUE, hasFreeze |-> TRUE,
          ownershipConcentration |-> 100, isRenounced |-> FALSE]

Min(a, b) == IF a <= b THEN a ELSE b

(* ---------------- one pool of the loop (src/index.ts 180-292) ------------- *)
\* rational <<n, d>> with d > 0 compared with an integer
RatLE(r, k) == r[1] <= k * r[2]

\* The Memecoin built from pool id, the replies r and the time t at which
\* ageMs is taken (Date.now() at line 203).  r.info.ok holds here.
\* ageHours = ageMs / MS_PER_HOUR is kept as ageMs.
Facts(id, r, t) ==
    LET liquiditySol == r.info.baseReserve
        price == IF IsSolBase(id)
                 THEN <<r.info.quoteReserve, r.info.baseReserve>>
                 ELSE <<r.info.baseReserve, r.info.quoteReserve>>
        marketCap == <<liquiditySol * price[1] * MARKET_CAP_FACTOR, price[2]>>
        vol == fetchTradingVolume(r.vol)
        safetyScore == checkTokenSafety(r.safety)
        riskScore == checkRisk(r.risk)
        feat == checkContractFeatures(r.feat)
    IN  [mint |-> TokenMint(id), symbol |-> TokenSymbol(id), poolId |-> id,
         liquidity |-> liquiditySol, marketCap |-> marketCap,
         ageMs |-> t - r.createdAt,
         buys24h |-> vol.buys24h, sells24h |-> vol.sells24h, price |-> price,
         scamScore |-> Min(safetyScore, riskScore),
         isHoneypot |-> checkHoneypot(r.honeypot),
         hasMint |-> feat.hasMint, hasFreeze |-> feat.hasFreeze,
         ownershipConcentration |-> feat.ownershipConcentration,
         isRenounced |-> feat.isRenounced]

\* the filter with the score bound exclusive
PassesFilterStrict(m) ==
    /\ m.scamScore > MIN_SAFETY_SCORE
    /\ ~m.isHoneypot
    /\ ~m.hasMint
    /\ ~m.hasFreeze
    /\ m.ownershipConcentration <= MAX_OWNERSHIP
    /\ m.isRenounced
    /\ m.liquidity >= MIN_LIQUIDITY
    /\ RatLE(m.marketCap, MAX_MARKET_CAP)
    /\ m.ageMs <= MAX_AGE_HOURS * MS_PER_HOUR
    /\ m.buys24h >= MIN_BUYS_24H
    /\ m.sells24h >= MIN_SELLS_24H

\* the condition of the if at lines 228-252
PassesFilter(m) ==
    /\ m.scamScore >= MIN_SAFETY_SCORE
    /\ ~m.isHoneypot
    /\ ~m.hasMint
    /\ ~m.hasFreeze
    /\ m.ownershipConcentration <= MAX_OWNERSHIP
    /\ m.isRenounced
    /\ m.liquidity >= MIN_LIQUIDITY
    /\ RatLE(m.marketCap, MAX_MARKET_CAP)
    /\ m.ageMs <= MAX_AGE_HOURS * MS_PER_HOUR
    /\ m.buys24h >= MIN_BUYS_24H
    /\ m.sells24h >= MIN_SELLS_24H

\* a loop body that keeps every pool
PushAlways(memecoins, m) == Append(memecoins, m)

\* memecoins after the loop body ran for pool id
PushIfSafe(memecoins, m) ==
    IF PassesFilter(m) THEN Append(memecoins, m) ELSE memecoins

(* ---------------- the sort of line 295 ---------------- *)
RECURSIVE Gcd(_, _)
Gcd(a, b) == IF b = 0 THEN a ELSE Gcd(b, a % b)
Abs(x) == IF x < 0 THEN -x ELSE x

\* score = liquidity * buys24h / ageHours * scamScore, as the pair
\* <<liquidity * buys24h * scamScore, ageMs>> (a common factor of all scores
\* does not change their order).  A zero age gives Infinity, a negative age
\* a negative score.
ScoreNum(m) == m.liquidity * m.buys24h * m.scamScore
\* score(a) > score(b) in JavaScript numbers; candidates have ScoreNum > 0
ScoreGreater(a, b) ==
    LET gn == Gcd(ScoreNum(a), ScoreNum(b))
        gd == Gcd(Abs(a.ageMs), Abs(b.ageMs))
        na == ScoreNum(a) \div gn
        nb == ScoreNum(b) \div gn
        da == IF gd = 0 THEN 0 ELSE a.ageMs \div gd
        db == IF gd = 0 THEN 0 ELSE b.ageMs \div gd
    IN  IF a.ageMs = 0 THEN b.ageMs # 0
        ELSE IF b.ageMs = 0 THEN FALSE
        ELSE IF a.ageMs > 0 /\ b.ageMs < 0 THEN TRUE
        ELSE IF a.ageMs < 0 /\ b.ageMs > 0 THEN FALSE
        ELSE na * db > nb * da

\* an insertion that keeps the order of arrival
InsertLast(sorted, m) == Append(sorted, m)

\* insert m after every element whose score is not smaller (stable)
RECURSIVE InsertByScore(_, _)
InsertByScore(sorted, m) ==
    IF sorted = <<>> THEN <<m>>
    ELSE IF ScoreGreater(m, Head(sorted)) THEN <<m>> \o sorted
    ELSE <<Head(sorted)>> \o InsertByScore(Tail(sorted), m)

\* memecoins.sort((a, b) => score(b) - score(a)): stable, descending
RECURSIVE SortByScore(_)
SortByScore(ms) ==
    IF ms = <<>> THEN <<>>
    ELSE InsertByScore(SortByScore(SubSeq(ms, 1, Len(ms) - 1)), ms[Len(ms)])

(* ---------------- fetchAndFilterMemecoins (src/index.ts 165-309) ---------- *)
\* An invocation is a slot <<kind, k, w>>: "mem" is GET /memecoins by caller
\* k.  Its record holds the position (pc), the locals now, pools, the loop
\* index i and memecoins, and the value it returns (ret).
\* "auto" is the call at line 597 of cycle k, "bal" the call at line 482 made
\* by checkBalance for wallet w of cycle k, "paper" the call at line 700 made
\* by GET /paper_trade request k, "trade" the call at line 797 made by GET
\* /trade request k.
Callers == {1, 2}
Cycles == {1}
\* the cycles of two GET /auto_trade requests that overlap
Overlapping == {1, 2}
Wallets == 0..(NumWallets - 1)
MemSlots == { <<"mem", k, 0>> : k \in Callers }
AutoSlot(c) == <<"auto", c, 0>>
BalSlot(c, w) == <<"bal", c, w>>
PaperCallers == {1, 2}
PaperSlot(k) == <<"paper", k, 0>>
TradeCallers == {1}
TradeSlot(k) == <<"trade", k, 0>>
Slots == MemSlots \cup { AutoSlot(c) : c \in Overlapping }
                 \cup { BalSlot(c, w) : c \in Overlapping, w \in Wallets }
                 \cup { PaperSlot(k) : k \in PaperCallers }
                 \cup { TradeSlot(k) : k \in TradeCallers }

IdleRf == [pc |-> "idle", now |-> 0, pools |-> <<>>, i |-> 0,
           memecoins |-> <<>>, ret |-> <<>>]

\* the cache test with the TTL bound inclusive
CacheFreshInclusive(now) == now - lastUpdate <= CACHE_TTL_MS /\ Len(cachedMemecoins) > 0

\* lines 167-169: the cache test, taken when the call starts
CacheFresh(now) == now - lastUpdate < CACHE_TTL_MS /\ Len(cachedMemecoins) > 0

\* the invocation after its synchronous start: served from the cache, or
\* waiting for limiter.removeTokens(1)
RfCalled ==
    IF CacheFresh(clock)
    THEN [IdleRf EXCEPT !.pc = "done", !.now = clock, !.ret = cachedMemecoins]
    ELSE [IdleRf EXCEPT !.pc = "limiter", !.now = clock]

\* a catch that returns an empty list instead of the cache
RfFailedEmpty(r) == [IdleRf EXCEPT !.pc = "done", !.now = r.now]

\* lines 301-307: the catch returns the cache as it is now and writes nothing
RfFailed(r) == [IdleRf EXCEPT !.pc = "done", !.now = r.now, !.ret = cachedMemecoins]

\* lines 295-299: sort, replace the cache and the timestamp, return the list
RfSorted(r, ms) == [IdleRf EXCEPT !.pc = "done", !.now = r.now,
                                  !.memecoins = SortByScore(ms),
                                  !.ret = SortByScore(ms)]
CacheWrite(r, ms) ==
    /\ cachedMemecoins' = SortByScore(ms)
    /\ lastUpdate' = r.now

\* line 173 resolves and line 175 issues the catalog download
RfLimiter(s) ==
    /\ rf[s].pc = "limiter"
    /\ tokensRemoved < MaxFetches
    /\ tokensRemoved' = tokensRemoved + 1
    /\ catalogGets' = catalogGets + 1
    /\ rf' = [rf EXCEPT ![s].pc = "catalog"]
    /\ UNCHANGED <<cacheVars, envVars, appVars>>

\* line 175 throws (the download fails, or the answer has no pool array)
RfCatalogError(s) ==
    /\ rf[s].pc = "catalog"
    /\ rf' = [rf EXCEPT ![s] = RfFailed(rf[s])]
    /\ UNCHANGED <<cacheVars, envVars, countVars, appVars>>

\* line 175 answers with pools: the loop starts, or, with no pool, ends
RfCatalog(s) ==
    /\ rf[s].pc = "catalog"
    /\ \E pools \in Catalogs :
         IF pools = <<>>
         THEN /\ rf' = [rf EXCEPT ![s] = RfSorted(rf[s], <<>>)]
              /\ CacheWrite(rf[s], <<>>)
         ELSE /\ rf' = [rf EXCEPT ![s].pc = "pool", ![s].pools = pools, ![s].i = 1]
              /\ UNCHANGED cacheVars
    /\ UNCHANGED <<envVars, countVars, appVars>>

\* lines 197: Liquidity.fetchInfo throws for the pool: the whole refresh fails
RfPoolError(s) ==
    /\ rf[s].pc = "pool"
    /\ ~svc[rf[s].pools[rf[s].i]].info.ok
    /\ rf' = [rf EXCEPT ![s] = RfFailed(rf[s])]
    /\ UNCHANGED <<cacheVars, envVars, countVars, appVars>>

\* lines 180-292 for pool i, and lines 295-299 after the last pool
RfPool(s) ==
    /\ rf[s].pc = "pool"
    /\ svc[rf[s].pools[rf[s].i]].info.ok
    /\ LET id == rf[s].pools[rf[s].i]
           ms == PushIfSafe(rf[s].memecoins, Facts(id, svc[id], clock))
       IN  IF rf[s].i = Len(rf[s].pools)
           THEN /\ rf' = [rf EXCEPT ![s] = RfSorted(rf[s], ms)]
                /\ CacheWrite(rf[s], ms)
           ELSE /\ rf' = [rf EXCEPT ![s].memecoins = ms, ![s].i = rf[s].i + 1]
                /\ UNCHANGED cacheVars
    /\ UNCHANGED <<envVars, countVars, appVars>>

RfStep(s) ==
    \/ RfLimiter(s)
    \/ RfCatalogError(s)
    \/ RfCatalog(s)
    \/ RfPoolError(s)
    \/ RfPool(s)

(* ---------------- GET /memecoins (src/index.ts 741-747) ---------------- *)
MemecoinsCall(s) ==
    /\ rf[s].pc = "idle"
    /\ rf' = [rf EXCEPT ![s] = RfCalled]
    /\ UNCHANGED <<cacheVars, envVars, countVars, appVars>>

\* res.json(memecoins): the request ends
MemecoinsRespond(s) ==
    /\ rf[s].pc = "done"
    /\ rf' = [rf EXCEPT ![s] = IdleRf]
    /\ UNCHANGED <<cacheVars, envVars, countVars, appVars>>

(* ---------------- chooseMemecoin (src/index.ts 448-471) ---------------- *)
\* what fetchSentiment returns: a number (in hundredths) or an error string
SentimentReplies ==
    {[ok |-> FALSE, val |-> 0]} \cup { [ok |-> TRUE, val |-> v] : v \in {-31, -30, 30, 31} }
\* Math.random() * 0.1, in thousandths
Volatilities == {49, 50}

\* the memecoin chosen, as a list of none or one; sentiment is read only
\* when the list is not empty, and an error string compares false
chooseMemecoin(memecoins, sentiment, volatility) ==
    IF Len(memecoins) = 0 THEN <<>>
    ELSE IF /\ sentiment.ok
            /\ sentiment.val > SENTIMENT_THRESHOLD
            /\ volatility < VOLATILITY_CEILING
            /\ memecoins[1].scamScore >= MIN_SAFETY_SCORE
         THEN <<memecoins[1]>>
         ELSE <<>>

(* ---------------- checkBalance (src/index.ts 476-502) ---------------- *)
\* connection.getBalance: lamports, or it throws
BalanceReplies ==
    {[ok |-> FALSE, val |-> 0]} \cup
    { [ok |-> TRUE, val |-> v] :
        v \in {TRADE_AMOUNT * (LAMPORTS_PER_SOL \div 1000) - 1,
               TRADE_AMOUNT * (LAMPORTS_PER_SOL \div 1000)} }
\* the token accounts of the wallet for a mint: the uiAmount of the first
\* account (0 when there is none, or when it is empty), or a call throws
TokenReplies ==
    {[ok |-> FALSE, val |-> 0]} \cup { [ok |-> TRUE, val |-> v] : v \in {0, 7} }

\* A call's record: pc, the lamports read, and its result: an error string
\* (err), or { SOL, token } with ofMint the mint whose balance token is
\* (SOL_MINT when no token account was read).
\* every answer of the sentiment service and of the wallet RPC
AnyAnswer == [sentiment |-> SentimentReplies, balance |-> BalanceReplies,
              token |-> TokenReplies]

IdleBalance == [pc |-> "idle", err |-> FALSE, SOL |-> 0, token |-> 0, ofMint |-> SOL_MINT]
BalanceError == [IdleBalance EXCEPT !.pc = "done", !.err = TRUE]
BalanceOf(sol, token, mint) ==
    [pc |-> "done", err |-> FALSE, SOL |-> sol, token |-> token, ofMint |-> mint]

\* lines 482-494 once the list is there: chooseMemecoin (its own sentiment
\* and volatility readings), then the token accounts of the chosen mint
BalanceResult(sol, memecoins, sentiment, volatility, t) ==
    LET memecoin == chooseMemecoin(memecoins, sentiment, volatility)
    IN  IF memecoin = <<>> THEN BalanceOf(sol, 0, SOL_MINT)
        ELSE IF t.ok THEN BalanceOf(sol, t.val, memecoin[1].mint)
        ELSE BalanceError

\* line 480 answers.  On an error the catch returns the error string.
\* Otherwise line 482 calls fetchAndFilterMemecoins: served from the cache,
\* the call goes on to its result; else it waits for the refresh.
BalGetBalance(c, w) ==
    /\ bal[c][w].pc = "getBalance"
    /\ \E b \in answers.balance :
         IF ~b.ok
         THEN /\ bal' = [bal EXCEPT ![c][w] = BalanceError]
              /\ UNCHANGED rf
         ELSE IF RfCalled.pc = "done"
         THEN /\ \E sentiment \in answers.sentiment, volatility \in Volatilities,
                    t \in answers.token :
                   bal' = [bal EXCEPT ![c][w] =
                       BalanceResult(b.val, RfCalled.ret, sentiment, volatility, t)]
              /\ UNCHANGED rf
         ELSE /\ bal' = [bal EXCEPT ![c][w].pc = "refresh", ![c][w].SOL = b.val]
              /\ rf' = [rf EXCEPT ![BalSlot(c, w)] = RfCalled]
    /\ UNCHANGED <<cacheVars, envVars, countVars, au, execCalls, txSent, paperVars, tr>>

\* the refresh of line 482 returns: lines 482-494 go on
BalRefreshed(c, w) ==
    /\ bal[c][w].pc = "refresh"
    /\ rf[BalSlot(c, w)].pc = "done"
    /\ rf' = [rf EXCEPT ![BalSlot(c, w)] = IdleRf]
    /\ \E sentiment \in answers.sentiment, volatility \in Volatilities, t \in answers.token :
         bal' = [bal EXCEPT ![c][w] =
             BalanceResult(bal[c][w].SOL, rf[BalSlot(c, w)].ret, sentiment, volatility, t)]
    /\ UNCHANGED <<cacheVars, envVars, countVars, au, execCalls, txSent, paperVars, tr>>

(* ---------------- executeTrade (src/index.ts 507-590) ---------------- *)
\* The JavaScript values of lines 513-517: the body of the catalog answer is
\* an object whose official is the pool array (as line 175 reads it).
Undefined == [kind |-> "undefined"]
PoolArray(pools) == [kind |-> "array", items |-> pools]
CatalogBody(pools) == [kind |-> "object", official |-> PoolArray(pools)]
\* v.official: a property of an object; an array has none
OfficialOf(v) == IF v.kind = "object" THEN v.official ELSE Undefined

\* what the download of line 513 gives: it fails, or a body with pools
CatalogReplies ==
    {[ok |-> FALSE, pools |-> <<>>]} \cup { [ok |-> TRUE, pools |-> p] : p \in Catalogs }

\* lines 513-517.  Line 515 takes res.data.official, the pool array; line 517
\* takes .official of that and calls find on it.  The result: it threw, or
\* the pool found (a list of none or one).
PoolKeysOf(reply, poolId) ==
    IF ~reply.ok THEN [threw |-> TRUE, found |-> <<>>]
    ELSE LET data == OfficialOf(CatalogBody(reply.pools))
             list == OfficialOf(data)
         IN  IF list.kind # "array" THEN [threw |-> TRUE, found |-> <<>>]
             ELSE [threw |-> FALSE,
                   found |-> IF \E k \in 1..Len(list.items) : list.items[k] = poolId
                             THEN <<poolId>> ELSE <<>>]

\* line 555 names TOKEN_PROGRAM_ID, which no line of the file imports or defines
TokenProgramIdDefined == FALSE

\* Math.min(1000, ...) of line 531, in tokens
MAX_SELL_TOKENS == 1000

\* what the calls of lines 531-580 answer: the result of checkBalance at line
\* 531 (held), and the first connector step that fails (failsAt)
ConnectorSteps == {"swap", "blockhash", "sign", "send"}
ExecReplies ==
    [catalog : CatalogReplies,
     held : {BalanceError, BalanceOf(0, 7, SOL_MINT)},
     failsAt : ConnectorSteps \cup {"none"}]

NoTrade == [outcome |-> "none", attempts |-> 0, sent |-> FALSE, amountIn |-> <<>>]
\* a catch that throws the error again
ExecRethrown == [NoTrade EXCEPT !.outcome = "threw"]

\* lines 584-588: the catch returns 'Error executing ...'
ExecCaught == [NoTrade EXCEPT !.outcome = "error executing"]

\* lines 522-531: tokenIn, tokenOut and amountIn (SOL in thousandths, tokens
\* in tokens); (await checkBalance(wallet)).token || 0 is 0 on an error string
AmountIn(action, memecoin, held) ==
    LET tokenIn == IF action = "buy" THEN SOL_MINT ELSE memecoin.mint
        tokenOut == IF action = "buy" THEN tokenIn ELSE SOL_MINT
    IN  [tokenIn |-> tokenIn, tokenOut |-> tokenOut,
         amount |-> IF action = "buy" THEN TRADE_AMOUNT
                    ELSE Min(MAX_SELL_TOKENS, IF held.err THEN 0 ELSE OrDefault(held.token, 0))]

\* executeTrade for the answers x: the string it returns (outcome), the
\* submissions it attempted, whether one was accepted, and the order built
executeTrade(action, memecoin, walletIndex, x) ==
    LET keys == PoolKeysOf(x.catalog, memecoin.poolId)
        order == <<AmountIn(action, memecoin, x.held)>>
    IN  IF keys.threw \/ keys.found = <<>> THEN ExecCaught
        ELSE IF ~TokenProgramIdDefined \/ x.failsAt \in {"swap", "blockhash", "sign"}
        THEN [ExecCaught EXCEPT !.amountIn = order]
        ELSE IF x.failsAt = "send"
        THEN [ExecCaught EXCEPT !.amountIn = order, !.attempts = 1]
        ELSE [outcome |-> "tx sent", attempts |-> 1, sent |-> TRUE, amountIn |-> order]

(* ---------------- autoTrade (src/index.ts 595-628) ---------------- *)
\* A cycle's record: pc, the locals chosenMemecoin (a list of none or one) and
\* sentiment, the string it returns (outcome), the readings on which
\* chooseMemecoin decided at line 599 (sel, kept when it chose a candidate
\* or read a sell signal), and of its executeTrade call: the result (exec),
\* whether the catalog answer listed the candidate's pool (poolListed) and
\* whether no connector call failed (connectorOk).

\* the readings of a sell signal: a number below -0.3, volatility below 0.05
SellSignal(sentiment, volatility) ==
    sentiment.ok /\ sentiment.val < -SENTIMENT_THRESHOLD /\ volatility < VOLATILITY_CEILING
NoSelection == [read |-> FALSE, sentiment |-> [ok |-> FALSE, val |-> 0], volatility |-> 0]
IdleCycle == [pc |-> "idle", chosen |-> <<>>, sel |-> NoSelection,
              sentiment |-> [ok |-> FALSE, val |-> 0], outcome |-> "none",
              exec |-> NoTrade, poolListed |-> FALSE, connectorOk |-> FALSE]

\* balances.findIndex(b => b.SOL >= TRADE_AMOUNT), from the right
LastWithSol(b) ==
    LET S == { w \in Wallets : b[w].SOL >= TRADE_AMOUNT * (LAMPORTS_PER_SOL \div 1000) }
    IN  IF S = {} THEN -1 ELSE CHOOSE w \in S : \A v \in S : v <= w

\* balances.findIndex(b => b.SOL >= TRADE_AMOUNT): SOL is lamports / 10^9 and
\* TRADE_AMOUNT thousandths of a SOL
availableWallet(b) ==
    LET S == { w \in Wallets : b[w].SOL >= TRADE_AMOUNT * (LAMPORTS_PER_SOL \div 1000) }
    IN  IF S = {} THEN -1 ELSE CHOOSE w \in S : \A v \in S : w <= v

\* balances.findIndex(b => b.token > 0)
sellingWallet(b) ==
    LET S == { w \in Wallets : b[w].token > 0 }
    IN  IF S = {} THEN -1 ELSE CHOOSE w \in S : \A v \in S : w <= v

\* a gate that trades on the threshold itself
DecisionInclusive(chosen, sentiment, b) ==
    IF chosen # <<>> /\ sentiment.ok /\ \A w \in Wallets : ~b[w].err
    THEN IF sentiment.val >= SENTIMENT_THRESHOLD /\ availableWallet(b) # -1
         THEN [kind |-> "buy", wallet |-> availableWallet(b)]
         ELSE IF sentiment.val <= -SENTIMENT_THRESHOLD /\ sellingWallet(b) # -1
         THEN [kind |-> "sell", wallet |-> sellingWallet(b)]
         ELSE [kind |-> "no trade", wallet |-> -1]
    ELSE [kind |-> "skipped", wallet |-> -1]

\* a gate that does not look at the balance errors
DecisionIgnoringErrors(chosen, sentiment, b) ==
    IF chosen # <<>> /\ sentiment.ok
    THEN IF sentiment.val > SENTIMENT_THRESHOLD /\ availableWallet(b) # -1
         THEN [kind |-> "buy", wallet |-> availableWallet(b)]
         ELSE IF sentiment.val < -SENTIMENT_THRESHOLD /\ sellingWallet(b) # -1
         THEN [kind |-> "sell", wallet |-> sellingWallet(b)]
         ELSE [kind |-> "no trade", wallet |-> -1]
    ELSE [kind |-> "skipped", wallet |-> -1]

\* a gate without the guard of line 604, which throws on an error string
DecisionUnguarded(chosen, sentiment, b) ==
    IF chosen = <<>> THEN [kind |-> "skipped", wallet |-> -1]
    ELSE IF ~sentiment.ok \/ \E w \in Wallets : b[w].err
    THEN [kind |-> "threw", wallet |-> -1]
    ELSE IF sentiment.val > SENTIMENT_THRESHOLD /\ availableWallet(b) # -1
    THEN [kind |-> "buy", wallet |-> availableWallet(b)]
    ELSE IF sentiment.val < -SENTIMENT_THRESHOLD /\ sellingWallet(b) # -1
    THEN [kind |-> "sell", wallet |-> sellingWallet(b)]
    ELSE [kind |-> "no trade", wallet |-> -1]

\* the wallets of the executeTrade calls that have not returned
BusyWallets ==
    { w \in Wallets : \E k \in 1..Len(execCalls) :
        /\ execCalls[k].walletIndex = w
        /\ execCalls[k].cycle \in Overlapping
        /\ au[execCalls[k].cycle].pc = "exec" }

\* a gate that buys with the first funded wallet no other cycle is using
DecisionExcluding(chosen, sentiment, b) ==
    LET S == { w \in Wallets \ BusyWallets :
                 b[w].SOL >= TRADE_AMOUNT * (LAMPORTS_PER_SOL \div 1000) }
        free == IF S = {} THEN -1 ELSE CHOOSE w \in S : \A v \in S : w <= v
    IN  IF chosen # <<>> /\ sentiment.ok /\ \A w \in Wallets : ~b[w].err
        THEN IF sentiment.val > SENTIMENT_THRESHOLD /\ free # -1
             THEN [kind |-> "buy", wallet |-> free]
             ELSE IF sentiment.val < -SENTIMENT_THRESHOLD /\ sellingWallet(b) # -1
             THEN [kind |-> "sell", wallet |-> sellingWallet(b)]
             ELSE [kind |-> "no trade", wallet |-> -1]
        ELSE [kind |-> "skipped", wallet |-> -1]

\* lines 604-626: what the cycle does with the three results
Decision(chosen, sentiment, b) ==
    IF chosen # <<>> /\ sentiment.ok /\ \A w \in Wallets : ~b[w].err
    THEN IF sentiment.val > SENTIMENT_THRESHOLD /\ availableWallet(b) # -1
         THEN [kind |-> "buy", wallet |-> availableWallet(b)]
         ELSE IF sentiment.val < -SENTIMENT_THRESHOLD /\ sellingWallet(b) # -1
         THEN [kind |-> "sell", wallet |-> sellingWallet(b)]
         ELSE [kind |-> "no trade", wallet |-> -1]
    ELSE [kind |-> "skipped", wallet |-> -1]

\* GET /auto_trade arrives: line 597 calls fetchAndFilterMemecoins
AutoTradeCall(c) ==
    /\ au[c].pc = "idle"
    /\ au' = [au EXCEPT ![c].pc = "fetch"]
    /\ rf' = [rf EXCEPT ![AutoSlot(c)] = RfCalled]
    /\ UNCHANGED <<cacheVars, envVars, countVars, bal, execCalls, txSent, paperVars, tr>>

\* line 601: fetchSentiment and the three checkBalance calls start together
FanOut(c) == [w \in Wallets |-> [IdleBalance EXCEPT !.pc = "getBalance"]]

\* line 599 with an empty list: chooseMemecoin returns null at once
AutoNoCandidates(c) ==
    /\ au[c].pc = "fetch"
    /\ rf[AutoSlot(c)].pc = "done"
    /\ rf[AutoSlot(c)].ret = <<>>
    /\ rf' = [rf EXCEPT ![AutoSlot(c)] = IdleRf]
    /\ au' = [au EXCEPT ![c].pc = "join", ![c].chosen = <<>>]
    /\ bal' = [bal EXCEPT ![c] = FanOut(c)]
    /\ UNCHANGED <<cacheVars, envVars, countVars, execCalls, txSent, paperVars, tr>>

\* line 599 with candidates: chooseMemecoin reads sentiment and volatility
AutoChoose(c) ==
    /\ au[c].pc = "fetch"
    /\ rf[AutoSlot(c)].pc = "done"
    /\ rf[AutoSlot(c)].ret # <<>>
    /\ rf' = [rf EXCEPT ![AutoSlot(c)] = IdleRf]
    /\ \E sentiment \in answers.sentiment, volatility \in Volatilities :
         au' = [au EXCEPT ![c].pc = "join",
                          ![c].chosen = chooseMemecoin(rf[AutoSlot(c)].ret, sentiment, volatility),
                          ![c].sel =
                              IF \/ chooseMemecoin(rf[AutoSlot(c)].ret, sentiment, volatility) # <<>>
                                 \/ SellSignal(sentiment, volatility)
                              THEN [read |-> TRUE, sentiment |-> sentiment,
                                    volatility |-> volatility]
                              ELSE NoSelection]
    /\ bal' = [bal EXCEPT ![c] = FanOut(c)]
    /\ UNCHANGED <<cacheVars, envVars, countVars, execCalls, txSent, paperVars, tr>>

\* every promise of line 601 but fetchSentiment's has resolved
Joined(c) == \A w \in Wallets : bal[c][w].pc = "done"

\* line 601 resolves with the sentiment read, and lines 604-626 end without
\* a trade
AutoNoTrade(c) ==
    /\ au[c].pc = "join"
    /\ Joined(c)
    /\ \E sentiment \in answers.sentiment :
         /\ Decision(au[c].chosen, sentiment, bal[c]).kind \in {"no trade", "skipped"}
         /\ au' = [au EXCEPT ![c].pc = "done", ![c].sentiment = sentiment,
                            ![c].outcome = Decision(au[c].chosen, sentiment, bal[c]).kind]
    /\ UNCHANGED <<cacheVars, envVars, countVars, rf, bal, execCalls, txSent, paperVars, tr>>

\* line 601 resolves with the sentiment read, and line 610 or 616 calls
\* executeTrade, which downloads the catalog
AutoExecuteTrade(c) ==
    /\ au[c].pc = "join"
    /\ Joined(c)
    /\ \E sentiment \in answers.sentiment :
         LET d == Decision(au[c].chosen, sentiment, bal[c])
         IN  /\ d.kind \in {"buy", "sell"}
             /\ execCalls' = Append(execCalls,
                    [action |-> d.kind, memecoin |-> au[c].chosen[1],
                     walletIndex |-> d.wallet, cycle |-> c])
             /\ au' = [au EXCEPT ![c].pc = "exec", ![c].sentiment = sentiment]
    /\ UNCHANGED <<cacheVars, envVars, countVars, rf, bal, txSent, paperVars, tr>>

\* the call of executeTrade that cycle c is in
LastCall(c) ==
    execCalls[CHOOSE k \in 1..Len(execCalls) :
                 /\ execCalls[k].cycle = c
                 /\ \A j \in (k + 1)..Len(execCalls) : execCalls[j].cycle # c]

\* the transaction of a call that submitted one
Submitted(call, r) ==
    IF r.sent THEN <<[action |-> call.action, memecoin |-> call.memecoin,
                      walletIndex |-> call.walletIndex, order |-> r.amountIn[1]]>>
    ELSE <<>>

\* executeTrade returns (lines 507-590, for every answer of the services it
\* calls) and autoTrade returns its string.  The download fails, or it
\* answers and data.official.find is read off the pool array, which throws;
\* either way the catch returns 'Error executing ...'
AutoExecuteFailed(c) ==
    /\ au[c].pc = "exec"
    /\ \E x \in ExecReplies :
         LET call == LastCall(c)
             r == executeTrade(call.action, call.memecoin, call.walletIndex, x)
         IN  /\ au' = [au EXCEPT ![c].pc = "done", ![c].outcome = r.outcome,
                                 ![c].exec = r,
                                 ![c].poolListed =
                                     (x.catalog.ok /\ \E k \in 1..Len(x.catalog.pools) :
                                         x.catalog.pools[k] = call.memecoin.poolId),
                                 ![c].connectorOk = (x.failsAt = "none")]
             /\ txSent' = txSent \o Submitted(call, r)
    /\ UNCHANGED <<cacheVars, envVars, countVars, rf, bal, execCalls, paperVars, tr>>

(* ---------------- the price source (src/unnamed/part_000 43-60) ----------- *)
\* src/index.ts calls fetchPrice(poolId) and does not define it; the price
\* source of the repository is fetchPrice of part_000.  A number is
\* [isNumber |-> TRUE, val |-> price]; the error string is not a number.
DEFAULT_MID_PRICE == 5000
FALLBACK_PRICE == 1
NotANumber == [isNumber |-> FALSE, val |-> 0]
Number(v) == [isNumber |-> TRUE, val |-> v]

\* what the order book answers: an error, no usable mid price (0), or a price
MidPrices == {0, 2}
PriceReplies == {[ok |-> FALSE, val |-> 0]} \cup { [ok |-> TRUE, val |-> p] : p \in MidPrices }

\* midPrice = (...) / 2 || 0.05, or the string of the catch
fetchPrice(r) == IF r.ok THEN Number(OrDefault(r.val, DEFAULT_MID_PRICE)) ELSE NotANumber

(* ---------------- paperTrade (src/index.ts 655-688) ---------------- *)
\* JavaScript numbers of the ledger: a value or NaN
NaN == [nan |-> TRUE, val |-> 0]
Num(v) == [nan |-> FALSE, val |-> v]
\* amount * price: NaN when price is the error string
Times(amount, price) == IF price.isNumber THEN Num(amount * price.val) ELSE NaN
Minus(a, b) == IF a.nan \/ b.nan THEN NaN ELSE Num(a.val - b.val)
Plus(a, b) == IF a.nan \/ b.nan THEN NaN ELSE Num(a.val + b.val)

\* one SOL in units of profit/loss per unit of amount
PRICE_SCALE == 100 * 1000
\* Math.min(1000, ...), in thousandths
MAX_SELL_AMOUNT == 1000 * 1000

\* paperTrades.find(t => same mint && t.action === 'buy'): the index of the
\* first such entry, 0 when there is none
RECURSIVE FindBuy(_, _, _)
FindBuy(ledger, mint, k) ==
    IF k > Len(ledger) THEN 0
    ELSE IF ledger[k].memecoin.mint = mint /\ ledger[k].action = "buy" THEN k
    ELSE FindBuy(ledger, mint, k + 1)

\* (...)?.amount || 0
BoughtAmount(ledger, mint) ==
    IF FindBuy(ledger, mint, 1) = 0 THEN 0
    ELSE OrDefault(ledger[FindBuy(ledger, mint, 1)].amount, 0)

\* line 659
PaperAmount(action, ledger, memecoin) ==
    IF action = "buy" THEN TRADE_AMOUNT
    ELSE Min(MAX_SELL_AMOUNT, BoughtAmount(ledger, memecoin.mint))

\* a sell whose profit/loss is its proceeds, with no cost taken off
PaperProceeds(action, ledger, memecoin, price) ==
    IF action = "buy" THEN Num(-(TRADE_AMOUNT * PRICE_SCALE))
    ELSE Times(PaperAmount(action, ledger, memecoin), price)

\* lines 663-676
PaperProfitLoss(action, ledger, memecoin, price) ==
    IF action = "buy" THEN Num(-(TRADE_AMOUNT * PRICE_SCALE))
    ELSE Minus(Times(PaperAmount(action, ledger, memecoin), price),
               Times(BoughtAmount(ledger, memecoin.mint), price))

\* line 682
TradeResult(action, ledger, memecoin, price, success, t) ==
    [memecoin |-> memecoin, action |-> action, timestamp |-> t, price |-> price,
     amount |-> PaperAmount(action, ledger, memecoin),
     profitLoss |-> PaperProfitLoss(action, ledger, memecoin, price),
     success |-> success]

\* a push that puts the new entry first
PushFront(ledger, result) == <<result>> \o ledger

\* line 684: paperTrades.push(result)
Push(ledger, result) == Append(ledger, result)

(* ---------------- GET /paper_trade (src/index.ts 691-711) ---------------- *)
MaxTrades == 2

\* req.params.action and req.params.memecoinSymbol: any strings; symbol 0 is
\* the symbol of no pool
RequestActions == {"buy", "sell", "hold"}
RequestSymbols == {0} \cup { TokenSymbol(id) : id \in PoolIds }

\* A request's record: pc, the parameters action and symbol, the memecoin
\* found, and the answer (status, result); the answer 'Invalid action' keeps
\* the action it answers.
IdlePaper == [pc |-> "idle", action |-> "", symbol |-> 0, memecoin |-> <<>>,
              status |-> "", result |-> <<>>]
PaperAnswer(status, result) ==
    [IdlePaper EXCEPT !.pc = "done", !.status = status, !.result = result]

\* paper requests that may still add an entry (MaxTrades bounds the entries
\* of the ledger and the calls of executeTrade together)
Trading == { k \in PaperCallers : pt[k].pc \in {"refresh", "price1", "price2"} }

\* a lookup that takes the first memecoin, whatever its symbol
FindAny(memecoins, symbol, k) ==
    IF k > Len(memecoins) THEN <<>> ELSE <<memecoins[k]>>

\* memecoins.find(m => m.symbol === memecoinSymbol)
RECURSIVE FindSymbol(_, _, _)
FindSymbol(memecoins, symbol, k) ==
    IF k > Len(memecoins) THEN <<>>
    ELSE IF memecoins[k].symbol = symbol THEN <<memecoins[k]>>
    ELSE FindSymbol(memecoins, symbol, k + 1)

\* lines 693-700: the request arrives, while fewer than cap trades are made
\* or under way
PaperTradeArrives(k, cap) ==
    /\ pt[k].pc = "idle"
    /\ Len(paperTrades) + Cardinality(Trading) + Len(execCalls) < cap
    /\ \E action \in RequestActions, symbol \in RequestSymbols :
         IF action # "buy" /\ action # "sell"
         THEN /\ pt' = [pt EXCEPT ![k] = [PaperAnswer("Invalid action", <<>>) EXCEPT
                                                 !.action = action]]
              /\ UNCHANGED rf
         ELSE /\ pt' = [pt EXCEPT ![k].pc = "refresh", ![k].action = action,
                                  ![k].symbol = symbol]
              /\ rf' = [rf EXCEPT ![PaperSlot(k)] = RfCalled]
    /\ UNCHANGED <<cacheVars, envVars, countVars, tradeVars, paperTrades, listed, tr>>

PaperTradeCall(k) == PaperTradeArrives(k, MaxTrades)

\* lines 700-707: the list arrives; the first fetchPrice of line 657 is issued
PaperRefreshed(k) ==
    /\ pt[k].pc = "refresh"
    /\ rf[PaperSlot(k)].pc = "done"
    /\ rf' = [rf EXCEPT ![PaperSlot(k)] = IdleRf]
    /\ LET memecoin == FindSymbol(rf[PaperSlot(k)].ret, pt[k].symbol, 1)
       IN  IF memecoin = <<>>
           THEN pt' = [pt EXCEPT ![k] = PaperAnswer("Memecoin not found", <<>>)]
           ELSE pt' = [pt EXCEPT ![k].pc = "price1", ![k].memecoin = memecoin]
    /\ UNCHANGED <<cacheVars, envVars, countVars, tradeVars, paperTrades, listed, tr>>

\* a simulation that also sends its trade to the chain
PaperSubmitsTrade(result) ==
    <<[action |-> result.action, memecoin |-> result.memecoin, walletIndex |-> 0,
       order |-> [tokenIn |-> SOL_MINT, tokenOut |-> SOL_MINT, amount |-> result.amount]]>>

\* the transactions paperTrade submits: lines 655-688 call the price source
\* and nothing of the connector
PaperSubmits(result) == <<>>

\* lines 659-686, with no await: the entry is made and pushed
Record(k, price) ==
    \E failed \in BOOLEAN :
       LET result == TradeResult(pt[k].action, paperTrades, pt[k].memecoin[1],
                                 price, ~failed, clock)
       IN  /\ paperTrades' = Push(paperTrades, result)
           /\ pt' = [pt EXCEPT ![k] = PaperAnswer("executed", <<result>>)]
           /\ txSent' = txSent \o PaperSubmits(result)

\* line 657: the first price arrives; a number asks the price again, anything
\* else makes the price 0.00001
PaperPrice1(k) ==
    /\ pt[k].pc = "price1"
    /\ \E r \in PriceReplies :
         IF fetchPrice(r).isNumber
         THEN /\ pt' = [pt EXCEPT ![k].pc = "price2"]
              /\ UNCHANGED <<paperTrades, txSent>>
         ELSE Record(k, Number(FALLBACK_PRICE))
    /\ UNCHANGED <<cacheVars, envVars, countVars, rf, au, bal, execCalls, listed, tr>>

\* line 657: the second price arrives and is the price, whatever it is
PaperPrice2(k) ==
    /\ pt[k].pc = "price2"
    /\ \E r \in PriceReplies : Record(k, fetchPrice(r))
    /\ UNCHANGED <<cacheVars, envVars, countVars, rf, au, bal, execCalls, listed, tr>>

\* lines 697, 704, 709: res.json, the request ends
PaperRespond(k) ==
    /\ pt[k].pc = "done"
    /\ pt' = [pt EXCEPT ![k] = IdlePaper]
    /\ UNCHANGED <<cacheVars, envVars, countVars, rf, tradeVars, paperTrades, listed, tr>>

(* ---------------- GET /trade (src/index.ts 787-808) ---------------- *)
\* lines 789-797: the request arrives
TradeCall(k) ==
    /\ tr[k].pc = "idle"
    /\ Len(paperTrades) + Cardinality(Trading) + Len(execCalls) < MaxTrades
    /\ \E action \in RequestActions, symbol \in RequestSymbols :
         IF action # "buy" /\ action # "sell"
         THEN /\ tr' = [tr EXCEPT ![k] = [PaperAnswer("Invalid action", <<>>) EXCEPT
                                                 !.action = action]]
              /\ UNCHANGED rf
         ELSE /\ tr' = [tr EXCEPT ![k].pc = "refresh", ![k].action = action,
                                  ![k].symbol = symbol]
              /\ rf' = [rf EXCEPT ![TradeSlot(k)] = RfCalled]
    /\ UNCHANGED <<cacheVars, envVars, countVars, tradeVars, paperVars>>

\* lines 797-803: the list arrives; no memecoin of that symbol, or
\* executeTrade(action, memecoin) is called, with wallet index 0
TradeRefreshed(k) ==
    /\ tr[k].pc = "refresh"
    /\ rf[TradeSlot(k)].pc = "done"
    /\ rf' = [rf EXCEPT ![TradeSlot(k)] = IdleRf]
    /\ LET memecoin == FindSymbol(rf[TradeSlot(k)].ret, tr[k].symbol, 1)
       IN  IF memecoin = <<>>
           THEN /\ tr' = [tr EXCEPT ![k] = PaperAnswer("Memecoin not found", <<>>)]
                /\ UNCHANGED execCalls
           ELSE /\ tr' = [tr EXCEPT ![k].pc = "exec", ![k].memecoin = memecoin]
                /\ execCalls' = Append(execCalls,
                       [action |-> tr[k].action, memecoin |-> memecoin[1],
                        walletIndex |-> 0, cycle |-> 0])
    /\ UNCHANGED <<cacheVars, envVars, countVars, au, bal, txSent, paperVars>>

\* executeTrade returns (lines 507-590), line 803 has its string
TradeExecuted(k) ==
    /\ tr[k].pc = "exec"
    /\ \E x \in ExecReplies :
         LET call == [action |-> tr[k].action, memecoin |-> tr[k].memecoin[1],
                      walletIndex |-> 0, cycle |-> 0]
             r == executeTrade(call.action, call.memecoin, call.walletIndex, x)
         IN  /\ tr' = [tr EXCEPT ![k] = PaperAnswer(r.outcome, <<>>)]
             /\ txSent' = txSent \o Submitted(call, r)
    /\ UNCHANGED <<cacheVars, envVars, countVars, rf, au, bal, execCalls, paperVars>>

\* lines 791, 801, 805: res.json, the request ends
TradeRespond(k) ==
    /\ tr[k].pc = "done"
    /\ tr' = [tr EXCEPT ![k] = IdlePaper]
    /\ UNCHANGED <<cacheVars, envVars, countVars, rf, tradeVars, paperVars>>

(* ---------------- GET /paper_trades (src/index.ts 714-736) ---------------- *)
\* v / d rounded to the nearest integer, halves away from zero
RoundDiv(v, d) ==
    IF v >= 0 THEN (2 * v + d) \div (2 * d) ELSE -((2 * (-v) + d) \div (2 * d))
\* price.toFixed(8), in units of 10^-8
ToFixed8(price) == price.val * 1000
\* profitLoss.toFixed(4), in units of 10^-4
ToFixed4(n) == IF n.nan THEN NaN ELSE Num(RoundDiv(n.val, 10000))

\* a total that leaves out the trades recorded as failed
RECURSIVE totalOfSuccessful(_)
totalOfSuccessful(ledger) ==
    IF ledger = <<>> THEN Num(0)
    ELSE LET rest == totalOfSuccessful(SubSeq(ledger, 1, Len(ledger) - 1))
         IN  IF ledger[Len(ledger)].success
             THEN Plus(rest, ledger[Len(ledger)].profitLoss) ELSE rest

\* line 732: paperTrades.reduce((sum, trade) => sum + trade.profitLoss, 0)
RECURSIVE totalProfitLoss(_)
totalProfitLoss(ledger) ==
    IF ledger = <<>> THEN Num(0)
    ELSE Plus(totalProfitLoss(SubSeq(ledger, 1, Len(ledger) - 1)),
              ledger[Len(ledger)].profitLoss)

\* lines 718-732: one row
Row(t, ledger) ==
    [memecoin |-> t.memecoin.symbol, action |-> t.action, timestamp |-> t.timestamp,
     price |-> ToFixed8(t.price), amount |-> t.amount,
     profitLoss |-> ToFixed4(t.profitLoss), success |-> t.success,
     totalProfitLoss |-> totalProfitLoss(ledger)]

NotListed == [status |-> "none", rows |-> <<>>]
\* toFixed is not a function of a string: the map throws and no row is sent
Listing(ledger) ==
    IF \A k \in 1..Len(ledger) : ledger[k].price.isNumber
    THEN [status |-> "ok", rows |-> [k \in 1..Len(ledger) |-> Row(ledger[k], ledger)]]
    ELSE [status |-> "error", rows |-> <<>>]

ListPaperTrades ==
    /\ listed' = Listing(paperTrades)
    /\ UNCHANGED <<cacheVars, envVars, countVars, rf, tradeVars, paperTrades, pt, tr>>

(* ---------------- the environment ---------------- *)
Tick ==
    /\ ticks < MaxTicks
    /\ ticks' = ticks + 1
    /\ clock' = clock + TickMs
    /\ UNCHANGED <<svc, answers, cacheVars, countVars, rf, appVars>>

MAX_AGE_MS == MAX_AGE_HOURS * MS_PER_HOUR

\* replies that meet every threshold exactly, for a pool created at c
GoodInfo(id) == IF IsSolBase(id) THEN InfoReply(TRUE, 250, 31)
                ELSE InfoReply(TRUE, 250, 2000)
GoodReply(id, c, score) ==
    Reply(c, GoodInfo(id), VolReply(TRUE, 500, 250), NumReply(TRUE, score),
          NumReply(TRUE, 100), FlagReply(TRUE, FALSE),
          FeatReply(TRUE, FALSE, FALSE, 50, FALSE))
\* what the services may answer for pool id in the concurrent runs
Profiles(id) ==
    { GoodReply(id, StartClock - MAX_AGE_MS + TickMs, 80),
      GoodReply(id, StartClock, 100),
      GoodReply(id, StartClock - MAX_AGE_MS + TickMs, 79),
      [GoodReply(id, StartClock, 80) EXCEPT !.info = InfoReply(FALSE, 0, 0)] }

vars == <<clock, ticks, svc, answers, cachedMemecoins, lastUpdate, tokensRemoved,
          catalogGets, rf, au, bal, execCalls, txSent, paperTrades, pt, listed, tr>>

\* the program after construction
InitIdle ==
    /\ clock = StartClock
    /\ ticks = 0
    /\ cachedMemecoins = <<>>
    /\ lastUpdate = 0
    /\ tokensRemoved = 0
    /\ catalogGets = 0
    /\ rf = [s \in Slots |-> IdleRf]
    /\ au = [c \in Overlapping |-> IdleCycle]
    /\ bal = [c \in Overlapping |-> [w \in Wallets |-> IdleBalance]]
    /\ execCalls = <<>>
    /\ txSent = <<>>
    /\ paperTrades = <<>>
    /\ pt = [k \in PaperCallers |-> IdlePaper]
    /\ listed = NotListed
    /\ tr = [k \in TradeCallers |-> IdlePaper]

InitProgram ==
    /\ InitIdle
    /\ answers = AnyAnswer

Init ==
    /\ InitProgram
    /\ svc \in { f \in [PoolIds -> UNION { Profiles(id) : id \in PoolIds }] :
                   \A id \in PoolIds : f[id] \in Profiles(id) }

Next ==
    \/ \E s \in MemSlots : MemecoinsCall(s)
    \/ \E s \in MemSlots : RfLimiter(s)
    \/ \E s \in MemSlots : RfCatalogError(s)
    \/ \E s \in MemSlots : RfCatalog(s)
    \/ \E s \in MemSlots : RfPoolError(s)
    \/ \E s \in MemSlots : RfPool(s)
    \/ \E s \in MemSlots : MemecoinsRespond(s)
    \/ Tick

Spec == Init /\ [][Next]_vars

(* ---------------- the refresh of one pool, for every answer ---------------- *)
\* Every answer the services can give for pool 1 around the thresholds of the
\* filter, errors included; the other pools meet every threshold.
AllReplies ==
    { Reply(c, i, v, sf, rk, h, f) :
        c \in {StartClock - MAX_AGE_MS, StartClock - MAX_AGE_MS - 1},
        i \in {InfoReply(FALSE, 0, 0)} \cup
              { InfoReply(TRUE, b, q) : b \in {249, 250}, q \in {1999, 2000} },
        v \in {VolReply(FALSE, 0, 0)} \cup
              { VolReply(TRUE, b, sl) : b \in {0, 499, 500}, sl \in {249, 250} },
        sf \in {NumReply(FALSE, 0), NumReply(TRUE, 79), NumReply(TRUE, 80)},
        rk \in {NumReply(FALSE, 0), NumReply(TRUE, 79), NumReply(TRUE, 80)},
        h \in {FlagReply(FALSE, FALSE), FlagReply(TRUE, FALSE), FlagReply(TRUE, TRUE)},
        f \in {FeatReply(FALSE, FALSE, FALSE, 0, FALSE)} \cup
              { FeatReply(TRUE, m, z, p, o) :
                  m \in BOOLEAN, z \in BOOLEAN, p \in {50, 51}, o \in BOOLEAN } }

FirstCaller == <<"mem", 1, 0>>

InitFilter ==
    /\ InitProgram
    /\ \E r \in AllReplies :
         svc = [id \in PoolIds |->
                  IF id = 1 THEN r ELSE GoodReply(id, StartClock - MAX_AGE_MS, 80)]

NextFilter ==
    \/ MemecoinsCall(FirstCaller)
    \/ RfLimiter(FirstCaller)
    \/ RfCatalogError(FirstCaller)
    \/ RfCatalog(FirstCaller)
    \/ RfPoolError(FirstCaller)
    \/ RfPool(FirstCaller)
    \/ MemecoinsRespond(FirstCaller)

SpecFilter == InitFilter /\ [][NextFilter]_vars

(* ======================= the claims ======================= *)
InList(id, ms) == \E k \in 1..Len(ms) : ms[k].poolId = id
InFlight(s) == rf[s].pc \in {"catalog", "pool"}
\* slot s resumes in this step with the answers for pool i of its loop
PoolResumes(s) == rf[s].pc = "pool" /\ rf'[s] # rf[s]
CurrentPool(s) == rf[s].pools[rf[s].i]

\* the eleven predicates of the risk filter, on the facts fetched for a pool
ElevenHold(id, r, t) ==
    LET vol == fetchTradingVolume(r.vol)
        feat == checkContractFeatures(r.feat)
        m == Facts(id, r, t)
    IN  /\ Min(checkTokenSafety(r.safety), checkRisk(r.risk)) >= 80
        /\ ~checkHoneypot(r.honeypot)
        /\ ~feat.hasMint
        /\ ~feat.hasFreeze
        /\ feat.ownershipConcentration <= 50
        /\ feat.isRenounced
        /\ m.liquidity >= 250
        /\ m.marketCap[1] <= 6250 * m.marketCap[2]
        /\ m.ageMs <= 48 * 3600000
        /\ vol.buys24h >= 500
        /\ vol.sells24h >= 250

\* C1: during a refresh a pool is added to the candidate list if and only if
\* all eleven predicates hold on its fetched facts (composite score =
\* min(safetyScore, riskScore) >= 80, not honeypot, no mint, no freeze,
\* concentration <= 50, renounced, liquidity >= 250, marketCap <= 6250,
\* age <= 48 h, buys >= 500, sells >= 250), every bound inclusive.
C1_AddedIffElevenHold ==
    [][\A s \in Slots :
         (PoolResumes(s) /\ svc[CurrentPool(s)].info.ok) =>
           LET id == CurrentPool(s)
               before == rf[s].memecoins
               after == rf'[s].memecoins
           IN  IF ElevenHold(id, svc[id], clock)
               THEN InList(id, after) /\ Len(after) = Len(before) + 1
               ELSE ~InList(id, after) /\ Len(after) = Len(before)]_vars

\* C1 witness: a pool exactly at every bound is in the cached list
C1_BoundaryPoolCached ==
    \E k \in 1..Len(cachedMemecoins) :
        /\ cachedMemecoins[k].poolId = 1
        /\ cachedMemecoins[k].scamScore = 80
        /\ cachedMemecoins[k].ownershipConcentration = 50
        /\ cachedMemecoins[k].ageMs = 48 * 3600000
        /\ cachedMemecoins[k].buys24h = 500
        /\ cachedMemecoins[k].sells24h = 250
        /\ cachedMemecoins[k].liquidity = 250
        /\ cachedMemecoins[k].marketCap[1] = 6250 * cachedMemecoins[k].marketCap[2]

\* C2: whenever a scoring call made for a pool (safety score, risk score,
\* honeypot flag, contract features, 24h volume) errors, the pool is rejected.
C2_ScoringErrorRejects ==
    [][\A s \in Slots :
         (/\ PoolResumes(s)
          /\ svc[CurrentPool(s)].info.ok
          /\ LET r == svc[CurrentPool(s)]
             IN  ~r.safety.ok \/ ~r.risk.ok \/ ~r.honeypot.ok \/ ~r.feat.ok \/ ~r.vol.ok)
         => ~InList(CurrentPool(s), rf'[s].memecoins)]_vars

\* a call of fetchAndFilterMemecoins starts in this step
Starts(s) == rf[s].pc = "idle" /\ rf'[s].pc # "idle"
ServedFromCache(s) ==
    /\ rf'[s].pc = "done"
    /\ rf'[s].ret = cachedMemecoins
    /\ UNCHANGED <<cachedMemecoins, lastUpdate, tokensRemoved, catalogGets>>
\* the call goes on to take a token and download the catalog
GoesToFetch(s) == rf'[s].pc = "limiter"
FetchIssued(s) ==
    (rf[s].pc = "limiter" /\ rf'[s].pc # "limiter") =>
        /\ rf'[s].pc = "catalog"
        /\ catalogGets' = catalogGets + 1
        /\ tokensRemoved' = tokensRemoved + 1

\* C3 as stated: for every value of the cached list, a call that starts less
\* than 60 s after the last refresh's timestamp is served from the cache with
\* no download and no token, and a call that starts 60 s or more after it
\* downloads the catalog again.
C3_TtlAloneDecides ==
    [][\A s \in Slots :
         /\ Starts(s) =>
              IF clock - lastUpdate < 60000
              THEN ServedFromCache(s) ELSE GoesToFetch(s)
         /\ FetchIssued(s)]_vars

\* C3 amended: the same for a non-empty cached list; a call that finds the
\* cached list empty downloads the catalog again whatever the time.
C3_TtlDecidesNonEmpty ==
    [][\A s \in Slots :
         /\ Starts(s) =>
              IF clock - lastUpdate < 60000 /\ cachedMemecoins # <<>>
              THEN ServedFromCache(s) ELSE GoesToFetch(s)
         /\ FetchIssued(s)]_vars

\* C3 witness: a call that started 20 s or 40 s after the refresh was served
\* the cached list
C3_ServedInsideTtl ==
    \E s \in Slots :
        /\ rf[s].pc = "done"
        /\ rf[s].now > lastUpdate
        /\ rf[s].now - lastUpdate < 60000
        /\ rf[s].ret = cachedMemecoins
        /\ cachedMemecoins # <<>>
        /\ catalogGets = 1

\* C4: the pair (list, timestamp) changes only in the step that completes a
\* successful refresh, which writes its whole sorted list and its own start
\* time together; a refresh that fails returns the cached list and leaves
\* the pair as it was.
C4_CacheReplacedAsUnit ==
    [][/\ cacheVars' # cacheVars =>
            \E s \in Slots :
                /\ InFlight(s)
                /\ rf[s].pc = "pool" => rf[s].i = Len(rf[s].pools)
                /\ rf'[s].pc = "done"
                /\ cachedMemecoins' = rf'[s].ret
                /\ lastUpdate' = rf[s].now
       /\ \A s \in Slots :
            (InFlight(s) /\ rf'[s].pc = "done") =>
                \/ /\ cachedMemecoins' = rf'[s].ret
                   /\ lastUpdate' = rf[s].now
                \/ /\ UNCHANGED cacheVars
                   /\ rf'[s].ret = cachedMemecoins
       /\ \A s \in Slots :
            (PoolResumes(s) /\ ~svc[CurrentPool(s)].info.ok) =>
                /\ UNCHANGED cacheVars
                /\ rf'[s].pc = "done"
                /\ rf'[s].ret = cachedMemecoins]_vars

\* C4 witness: a refresh that started after the TTL had passed failed and
\* returned the list cached before it, which is still the cache
C4_FailedRefreshKeptCache ==
    \E s \in Slots :
        /\ rf[s].pc = "done"
        /\ lastUpdate > 0
        /\ rf[s].now - lastUpdate >= 60000
        /\ rf[s].ret = cachedMemecoins
        /\ cachedMemecoins # <<>>

(* ---------------- one trading cycle ---------------- *)
\* the cache expires in one step
TtlPasses ==
    /\ ticks + 3 <= MaxTicks
    /\ ticks' = ticks + 3
    /\ clock' = clock + 3 * TickMs
    /\ UNCHANGED <<svc, answers, cacheVars, countVars, rf, appVars>>

InitAuto ==
    /\ InitProgram
    /\ svc \in { [id \in PoolIds |-> GoodReply(id, StartClock, 80)],
                 [id \in PoolIds |-> GoodReply(id, StartClock, IF id = 1 THEN 79 ELSE 100)],
                 [id \in PoolIds |->
                    IF id = 1 THEN GoodReply(id, StartClock, 80)
                    ELSE [GoodReply(id, StartClock, 80) EXCEPT !.info = InfoReply(FALSE, 0, 0)]] }

NextAuto ==
    \/ \E c \in Cycles : AutoTradeCall(c)
    \/ \E c \in Cycles : AutoNoCandidates(c)
    \/ \E c \in Cycles : AutoChoose(c)
    \/ \E c \in Cycles, w \in Wallets : BalGetBalance(c, w)
    \/ \E c \in Cycles, w \in Wallets : BalRefreshed(c, w)
    \/ \E c \in Cycles : AutoNoTrade(c)
    \/ \E c \in Cycles : AutoExecuteTrade(c)
    \/ \E c \in Cycles : AutoExecuteFailed(c)
    \/ \E s \in Slots : RfLimiter(s)
    \/ \E s \in Slots : RfCatalogError(s)
    \/ \E s \in Slots : RfCatalog(s)
    \/ \E s \in Slots : RfPoolError(s)
    \/ \E s \in Slots : RfPool(s)
    \/ TtlPasses

SpecAuto == InitAuto /\ [][NextAuto]_vars

\* the calls of executeTrade made by cycle c
CallsOf(c) == { k \in 1..Len(execCalls) : execCalls[k].cycle = c }
Decided(c) == au[c].pc \in {"exec", "done"}

\* C5: executeTrade is called only in a cycle that chose a candidate (list
\* not empty, top score >= 80, volatility < 0.05), and then a buy only on a
\* numeric sentiment reading > 0.3 with a wallet holding >= 0.005 SOL, a sell
\* only on a reading < -0.3 with a wallet holding the token; a reading in
\* [-0.3, 0.3] never leads to a call.
C5_TradeOnlyWhenGated ==
    \A k \in 1..Len(execCalls) :
        LET e == execCalls[k]
            c == e.cycle
        IN  /\ au[c].chosen = <<e.memecoin>>
            /\ e.memecoin.scamScore >= 80
            /\ au[c].sel.read /\ au[c].sel.volatility < 50
            /\ au[c].sel.sentiment.ok /\ au[c].sel.sentiment.val > 30
            /\ au[c].sentiment.ok
            /\ ~(au[c].sentiment.val >= -30 /\ au[c].sentiment.val <= 30)
            /\ e.walletIndex \in Wallets
            /\ ~bal[c][e.walletIndex].err
            /\ e.action = "buy" =>
                 /\ au[c].sentiment.val > 30
                 /\ bal[c][e.walletIndex].SOL >= 5000000
            /\ e.action = "sell" =>
                 /\ au[c].sentiment.val < -30
                 /\ bal[c][e.walletIndex].token > 0

\* C5 witness: a sell was handed to executeTrade
C5_SellCalled ==
    \E k \in 1..Len(execCalls) :
        execCalls[k].action = "sell" /\ au[execCalls[k].cycle].sentiment.val = -31

\* C6: a cycle whose sentiment query or any of whose balance queries returned
\* an error ends skipped and calls executeTrade not once.
C6_ErrorsSkip ==
    \A c \in Cycles :
        (/\ Decided(c)
         /\ \/ ~au[c].sentiment.ok
            \/ \E w \in Wallets : bal[c][w].err)
        => /\ au[c].pc = "done"
           /\ au[c].outcome = "skipped"
           /\ CallsOf(c) = {}

\* C6 witness: a candidate was chosen, sentiment read 0.31 and wallet 1 could
\* pay, but the balance query of wallet 0 failed, and the cycle was skipped
C6_SkippedOnBalanceError ==
    \E c \in Cycles :
        /\ au[c].pc = "done"
        /\ au[c].outcome = "skipped"
        /\ au[c].chosen # <<>>
        /\ au[c].sentiment.ok /\ au[c].sentiment.val = 31
        /\ bal[c][0].err
        /\ ~bal[c][1].err /\ bal[c][1].SOL >= 5000000

\* C7: the wallet of a buy is the lowest-indexed wallet whose SOL balance is
\* >= 0.005; when every balance is below 0.005 no buy is executed.
C7_BuyWalletIsFirstFunded ==
    /\ \A k \in 1..Len(execCalls) :
         execCalls[k].action = "buy" =>
            LET b == bal[execCalls[k].cycle]
                i == execCalls[k].walletIndex
            IN  /\ b[i].SOL >= 5000000
                /\ \A v \in Wallets : v < i => b[v].SOL < 5000000
    /\ \A c \in Cycles :
         (Decided(c) /\ \A w \in Wallets : bal[c][w].SOL < 5000000) =>
            \A k \in CallsOf(c) : execCalls[k].action # "buy"

\* C7 witness: wallets 0 and 2 differ from wallet 1, the only one below which
\* nobody can pay: the buy went to wallet 1, with wallet 2 funded as well
C7_BuyFromSecondWallet ==
    \E k \in 1..Len(execCalls) :
        /\ execCalls[k].action = "buy"
        /\ execCalls[k].walletIndex = 1
        /\ bal[execCalls[k].cycle][0].SOL < 5000000
        /\ bal[execCalls[k].cycle][2].SOL >= 5000000

(* ---------------- paper trading ---------------- *)
InitPaper ==
    /\ InitProgram
    /\ svc \in { [id \in PoolIds |-> GoodReply(id, StartClock, 80)],
                 [id \in PoolIds |->
                    IF id = 1 THEN GoodReply(id, StartClock, 80)
                    ELSE [GoodReply(id, StartClock, 80) EXCEPT !.info = InfoReply(FALSE, 0, 0)]] }

NextPaper ==
    \/ \E k \in PaperCallers : PaperTradeCall(k)
    \/ \E k \in PaperCallers : PaperRefreshed(k)
    \/ \E k \in PaperCallers : PaperPrice1(k)
    \/ \E k \in PaperCallers : PaperPrice2(k)
    \/ \E k \in PaperCallers : PaperRespond(k)
    \/ \E k \in PaperCallers : RfLimiter(PaperSlot(k))
    \/ \E k \in PaperCallers : RfCatalogError(PaperSlot(k))
    \/ \E k \in PaperCallers : RfCatalog(PaperSlot(k))
    \/ \E k \in PaperCallers : RfPoolError(PaperSlot(k))
    \/ \E k \in PaperCallers : RfPool(PaperSlot(k))
    \/ ListPaperTrades

SpecPaper == InitPaper /\ [][NextPaper]_vars

\* the newest buy of the same candidate before entry k, 0 when there is none
MatchingBuys(k) ==
    { j \in 1..(k - 1) : /\ paperTrades[j].action = "buy"
                         /\ paperTrades[j].memecoin.mint = paperTrades[k].memecoin.mint }
NewestBuy(k) ==
    IF MatchingBuys(k) = {} THEN 0
    ELSE CHOOSE j \in MatchingBuys(k) : \A i \in MatchingBuys(k) : i <= j

\* C8: the profit/loss recorded for a simulated sell is amount x current
\* price minus amount x the execution price recorded on the newest earlier
\* buy of the same candidate, and amount x current price when the ledger
\* holds no such buy.
C8_SellProfitUsesBuyPrice ==
    \A k \in 1..Len(paperTrades) :
       (paperTrades[k].action = "sell" /\ paperTrades[k].price.isNumber) =>
          IF NewestBuy(k) = 0
          THEN paperTrades[k].profitLoss =
                  Num(paperTrades[k].amount * paperTrades[k].price.val)
          ELSE paperTrades[NewestBuy(k)].price.isNumber =>
                  paperTrades[k].profitLoss =
                     Num(paperTrades[k].amount * paperTrades[k].price.val
                         - paperTrades[k].amount * paperTrades[NewestBuy(k)].price.val)

\* request k completes its paperTrade call in this step
Completes(k) == pt[k].pc \in {"price1", "price2"} /\ pt'[k].pc = "done"

\* C9: every completed paperTrade call, recorded as failed or not, extends
\* the ledger by exactly one entry, the TradeResult it returns, and leaves
\* the earlier entries as and where they were, whatever other calls are in
\* progress; and the ledger changes in no other step.
C9_LedgerAppendOnly ==
    [][ /\ \A k \in PaperCallers :
              Completes(k) => /\ pt'[k].result # <<>>
                              /\ paperTrades' = Append(paperTrades, pt'[k].result[1])
        /\ paperTrades' # paperTrades =>
              /\ \E k \in PaperCallers : Completes(k)
              /\ Len(paperTrades') = Len(paperTrades) + 1
              /\ SubSeq(paperTrades', 1, Len(paperTrades)) = paperTrades ]_vars

\* two requests have completed, neither answered yet; the second entry is a
\* simulated failure
C9_TwoCallsRecorded ==
    /\ Len(paperTrades) = 2
    /\ \A k \in PaperCallers : pt[k].pc = "done" /\ pt[k].result # <<>>
    /\ pt[1].result[1] = paperTrades[2]
    /\ pt[2].result[1] = paperTrades[1]
    /\ ~paperTrades[2].success

\* the sum of the profit/loss of the entries 1..n of the ledger
RECURSIVE SumFrom(_, _)
SumFrom(k, n) ==
    IF k > n THEN 0 ELSE paperTrades[k].profitLoss.val + SumFrom(k + 1, n)

\* C10: the total that GET /paper_trades reports is the sum of the
\* profitLoss of all the entries the ledger holds when it is read, and is
\* the same on every row of the answer.
C10_TotalIsLedgerSum ==
    [][ (listed' # listed /\ listed'.status = "ok") =>
           /\ Len(listed'.rows) = Len(paperTrades)
           /\ \A i \in 1..Len(listed'.rows) :
                 /\ ~listed'.rows[i].totalProfitLoss.nan
                 /\ listed'.rows[i].totalProfitLoss.val = SumFrom(1, Len(paperTrades)) ]_vars

\* an answer that lists a buy recorded as failed and a sell, with the total of both
C10_ListedFailedBuyAndSell ==
    /\ listed.status = "ok"
    /\ Len(listed.rows) = 2
    /\ listed.rows[1].action = "buy"
    /\ listed.rows[2].action = "sell"
    /\ ~listed.rows[1].success
    /\ listed.rows[2].totalProfitLoss.val = -(TRADE_AMOUNT * PRICE_SCALE)

\* C11: a paper buy of the fixed trade size followed at once by a paper sell
\* of the same candidate at the same price records a sell profit/loss of 0,
\* whatever the price is.
C11_RoundTripIsZero ==
    \A k \in 1..(Len(paperTrades) - 1) :
       ( /\ paperTrades[k].action = "buy"
         /\ paperTrades[k].amount = TRADE_AMOUNT
         /\ paperTrades[k + 1].action = "sell"
         /\ paperTrades[k + 1].memecoin.mint = paperTrades[k].memecoin.mint
         /\ paperTrades[k].price.isNumber
         /\ paperTrades[k + 1].price = paperTrades[k].price )
       => paperTrades[k + 1].profitLoss = Num(0)

\* a buy and then a sell of the same candidate, both at the price 0.05
C11_BoughtAndSoldAtOnePrice ==
    /\ Len(paperTrades) >= 2
    /\ paperTrades[1].action = "buy"
    /\ paperTrades[2].action = "sell"
    /\ paperTrades[2].memecoin.mint = paperTrades[1].memecoin.mint
    /\ paperTrades[1].price = Number(DEFAULT_MID_PRICE)
    /\ paperTrades[2].price = Number(DEFAULT_MID_PRICE)
    /\ paperTrades[2].amount = TRADE_AMOUNT

\* C12: no step of the paper-trading operation (GET /paper_trade and
\* paperTrade) submits a transaction to the chain: the transactions
\* submitted are the same before and after every such step, so any sequence
\* of paper trades leaves their count unchanged.
C12_PaperNeverSubmits ==
    [][ (pt' # pt \/ paperTrades' # paperTrades) => txSent' = txSent ]_vars

\* two paper trades recorded as successful, a buy and a sell, and nothing
\* was submitted
C12_TwoPaperTradesNoneSubmitted ==
    /\ Len(paperTrades) = 2
    /\ paperTrades[1].action = "buy" /\ paperTrades[1].success
    /\ paperTrades[2].action = "sell" /\ paperTrades[2].success
    /\ Len(txSent) = 0

\* cycle c has called executeTrade and the call has returned
ExecReturned(c) == au[c].pc = "done" /\ CallsOf(c) # {}

\* C13: a call of executeTrade attempts at most one submission and never
\* throws: when the pool is not found or a connector step fails it returns
\* the 'Error executing ...' string, and a call that returned it has
\* submitted nothing.
C13_AtMostOneAttemptNoThrow ==
    /\ \A c \in Cycles :
          ExecReturned(c) =>
             /\ au[c].outcome \in {"tx sent", "error executing"}
             /\ au[c].exec.attempts <= 1
             /\ (~au[c].poolListed \/ ~au[c].connectorOk) =>
                    au[c].outcome = "error executing"
             /\ au[c].outcome = "error executing" => ~au[c].exec.sent
    /\ Len(txSent) <= Cardinality({ c \in Cycles : ExecReturned(c) /\ au[c].exec.sent })

\* a sell whose catalog answer did not list the pool returned the error string
C13_SellFailedPoolNotListed ==
    \E c \in Cycles :
       /\ ExecReturned(c)
       /\ execCalls[Len(execCalls)].action = "sell"
       /\ ~au[c].poolListed
       /\ au[c].outcome = "error executing"
       /\ Len(txSent) = 0

\* C14: when the catalog answer lists the candidate's pool and every
\* connector call succeeds, executeTrade submits exactly one transaction and
\* returns the 'tx sent' string; the call fails for a missing pool only when
\* the catalog lists no pool with the candidate's pool id.
C14_OneTxWhenPoolListed ==
    \A c \in Cycles :
       (ExecReturned(c) /\ au[c].poolListed /\ au[c].connectorOk) =>
          /\ au[c].outcome = "tx sent"
          /\ au[c].exec.sent
          /\ \E k \in 1..Len(txSent) :
                /\ txSent[k].memecoin = LastCall(c).memecoin
                /\ txSent[k].walletIndex = LastCall(c).walletIndex

\* C15: the order that executeTrade builds has the input amount 0.005 SOL
\* for a buy and, for a sell, min(1000, h) with h the holdings of the
\* candidate's token in the selected wallet, which is > 0 for a wallet that
\* holds some, whatever the sentiment reading is.
C15_SellAmountIsHoldings ==
    \A c \in Cycles :
       ExecReturned(c) =>
          /\ au[c].exec.amountIn # <<>>
          /\ au[c].exec.amountIn[1].amount =
                IF LastCall(c).action = "buy" THEN TRADE_AMOUNT
                ELSE Min(MAX_SELL_TOKENS, bal[c][LastCall(c).walletIndex].token)
          /\ LastCall(c).action = "sell" => au[c].exec.amountIn[1].amount > 0

(* ---------------- the ranking ---------------- *)
\* ms is in descending order of score, candidates of equal score in the
\* order of the catalog (ascending pool id), and its head has a maximal score
Ranked(ms) ==
    /\ \A i \in 1..Len(ms) : \A j \in 1..Len(ms) :
          i < j => /\ ~ScoreGreater(ms[j], ms[i])
                   /\ ~ScoreGreater(ms[i], ms[j]) => ms[i].poolId < ms[j].poolId
    /\ \A k \in 1..Len(ms) : ~ScoreGreater(ms[k], ms[1])

\* C16: the cached list and every list returned are in descending order of
\* score = liquidity x buys24h / ageHours x scamScore, candidates of equal
\* score in the order of the catalog; ranking such a list again gives the
\* same list, and its first element has a maximal score.
C16_RankedStableIdempotent ==
    /\ Ranked(cachedMemecoins)
    /\ SortByScore(cachedMemecoins) = cachedMemecoins
    /\ \A s \in Slots : rf[s].pc = "done" =>
          Ranked(rf[s].ret) /\ SortByScore(rf[s].ret) = rf[s].ret

\* the cache holds the second pool of the catalog before the first, the
\* second having the greater score
C16_CatalogOrderReversed ==
    /\ Len(cachedMemecoins) = 2
    /\ cachedMemecoins[1].poolId = 2
    /\ cachedMemecoins[2].poolId = 1
    /\ ScoreGreater(cachedMemecoins[1], cachedMemecoins[2])

\* C17: the age by which the ranking score divides is never zero: for every
\* candidate that the sort of line 295 ranks, one of age 0 included, the
\* divisor is a positive value, so that every score is finite.
C17_AgeDivisorPositive ==
    /\ \A k \in 1..Len(cachedMemecoins) : cachedMemecoins[k].ageMs > 0
    /\ \A s \in Slots : rf[s].pc = "done" =>
          \A k \in 1..Len(rf[s].ret) : rf[s].ret[k].ageMs > 0

\* C18: autoTrade never throws: whatever fails (catalog, pool info, scoring,
\* volume, sentiment, balances, the trade itself), the results it joins at
\* line 601 lead to a trade or to one of its strings, and the string a
\* finished cycle returned is 'tx sent', 'Error executing', 'No trade' or
\* 'Auto trade skipped'.
C18_AutoTradeAlwaysReturns ==
    \A c \in Cycles :
       /\ au[c].pc = "done" =>
             au[c].outcome \in {"tx sent", "error executing", "no trade", "skipped"}
       /\ (au[c].pc = "join" /\ Joined(c)) =>
             \A sentiment \in SentimentReplies :
                Decision(au[c].chosen, sentiment, bal[c]).kind
                   \in {"buy", "sell", "no trade", "skipped"}
       /\ \A w \in Wallets :
             bal[c][w].pc = "done" => (bal[c][w].err \/ bal[c][w].SOL >= 0)

\* a cycle with a chosen candidate returned 'skipped' after both the
\* sentiment query and a balance query failed
C18_SkippedAfterTwoFailures ==
    \E c \in Cycles :
       /\ au[c].pc = "done"
       /\ au[c].chosen # <<>>
       /\ ~au[c].sentiment.ok
       /\ \E w \in Wallets : bal[c][w].err
       /\ au[c].outcome = "skipped"

(* ---------------- one request of each trading endpoint ---------------- *)
SoloCallers == {1}

NextEndpoints ==
    \/ \E k \in SoloCallers : PaperTradeCall(k)
    \/ \E k \in SoloCallers : PaperRefreshed(k)
    \/ \E k \in SoloCallers : PaperPrice1(k)
    \/ \E k \in SoloCallers : PaperPrice2(k)
    \/ \E k \in SoloCallers : PaperRespond(k)
    \/ \E k \in SoloCallers : TradeCall(k)
    \/ \E k \in SoloCallers : TradeRefreshed(k)
    \/ \E k \in SoloCallers : TradeExecuted(k)
    \/ \E k \in SoloCallers : TradeRespond(k)
    \/ \E k \in SoloCallers : RfLimiter(PaperSlot(k)) \/ RfLimiter(TradeSlot(k))
    \/ \E k \in SoloCallers : RfCatalogError(PaperSlot(k)) \/ RfCatalogError(TradeSlot(k))
    \/ \E k \in SoloCallers : RfCatalog(PaperSlot(k)) \/ RfCatalog(TradeSlot(k))
    \/ \E k \in SoloCallers : RfPoolError(PaperSlot(k)) \/ RfPoolError(TradeSlot(k))
    \/ \E k \in SoloCallers : RfPool(PaperSlot(k)) \/ RfPool(TradeSlot(k))

SpecEndpoints == InitPaper /\ [][NextEndpoints]_vars

\* the list has a memecoin of that symbol
HasSymbol(ms, symbol) == \E i \in 1..Len(ms) : ms[i].symbol = symbol
\* nothing is submitted, no trade is started, the ledger is as it was
NothingTraded ==
    /\ txSent' = txSent
    /\ execCalls' = execCalls
    /\ paperTrades' = paperTrades
\* what request q of an endpoint (before: a, after: b, its list: ms) may do
\* in the step where it validates its parameters
Validates(a, b, ms) ==
    /\ (a.pc = "idle" /\ b.pc # "idle") =>
          IF b.action \in {"buy", "sell"} THEN b.pc = "refresh"
          ELSE b.pc = "done" /\ b.status = "Invalid action" /\ NothingTraded
    /\ (a.pc = "refresh" /\ b.pc # "refresh") =>
          IF HasSymbol(ms, a.symbol) THEN b.pc \in {"price1", "exec"}
          ELSE b.pc = "done" /\ b.status = "Memecoin not found" /\ NothingTraded

\* C19: GET /trade and GET /paper_trade answer 'Invalid action' when the
\* action is neither buy nor sell and 'Memecoin not found' when the symbol
\* is the symbol of no candidate of the current list, and in both cases
\* submit no transaction and leave the paper ledger as it was.
C19_RejectedRequestsDoNothing ==
    [][ /\ \A k \in PaperCallers : Validates(pt[k], pt'[k], rf[PaperSlot(k)].ret)
        /\ \A k \in TradeCallers : Validates(tr[k], tr'[k], rf[TradeSlot(k)].ret) ]_vars

\* with a paper trade in the ledger and candidates in the cache, GET
\* /paper_trade has answered 'Invalid action' and GET /trade 'Memecoin not
\* found'
C19_BothEndpointsRejected ==
    /\ Len(paperTrades) = 1
    /\ Len(cachedMemecoins) > 0
    /\ pt[1].pc = "done" /\ pt[1].status = "Invalid action" /\ pt[1].action = "hold"
    /\ tr[1].pc = "done" /\ tr[1].status = "Memecoin not found"
    /\ Len(txSent) = 0

(* ---------------- what a returned candidate satisfies ---------------- *)
\* invocation s returns in this step
Returns(s) == rf[s].pc # "done" /\ rf'[s].pc = "done"
\* the age of candidate m now
AgeNow(m) == clock - svc[m.poolId].createdAt
\* the eleven predicates on the facts recorded in the candidate
RecordedFactsPass(m) ==
    /\ m.scamScore >= 80
    /\ ~m.isHoneypot
    /\ ~m.hasMint
    /\ ~m.hasFreeze
    /\ m.ownershipConcentration <= 50
    /\ m.isRenounced
    /\ m.liquidity >= 250
    /\ m.marketCap[1] <= 6250 * m.marketCap[2]
    /\ m.ageMs <= 48 * 3600000
    /\ m.buys24h >= 500
    /\ m.sells24h >= 250

\* C20 as stated: every candidate that fetchAndFilterMemecoins returns
\* satisfies every risk predicate at the moment it is returned, its age
\* since creation then being <= 48 hours, also when the list comes from the
\* cache or is the prior list after a failed refresh.
C20_ReturnedPassesNow ==
    [][ \A s \in Slots : Returns(s) =>
           \A k \in 1..Len(rf'[s].ret) :
              /\ RecordedFactsPass(rf'[s].ret[k])
              /\ AgeNow(rf'[s].ret[k]) <= 48 * 3600000 ]_vars

\* C20, amended: every candidate that fetchAndFilterMemecoins returns
\* satisfied every risk predicate on the facts fetched for it by the
\* refresh that evaluated it, its age then being <= 48 hours and not more
\* than its age now; a list from the cache or after a failed refresh is
\* that earlier list, not evaluated again.
C20_ReturnedPassedWhenEvaluated ==
    [][ \A s \in Slots : Returns(s) =>
           /\ \A k \in 1..Len(rf'[s].ret) :
                 /\ RecordedFactsPass(rf'[s].ret[k])
                 /\ rf'[s].ret[k].ageMs <= AgeNow(rf'[s].ret[k])
           /\ (rf[s].pc = "idle" \/ cachedMemecoins' = cachedMemecoins) =>
                 rf'[s].ret = cachedMemecoins ]_vars

\* a call that starts now has been served from the cache a candidate that
\* is more than 48 hours old
C20_CachedCandidateTooOld ==
    \E s \in Slots :
       /\ rf[s].pc = "done"
       /\ rf[s].now = clock
       /\ lastUpdate < clock
       /\ rf[s].ret = cachedMemecoins
       /\ \E k \in 1..Len(rf[s].ret) : AgeNow(rf[s].ret[k]) > 48 * 3600000

(* ---------------- catalog downloads per TTL window ---------------- *)
\* the TTL windows that have begun since the program started
WindowsBegun == 1 + (clock - StartClock) \div CACHE_TTL_MS

\* C21: at most one catalog download is started per 60-second TTL window,
\* however many callers invoke fetchAndFilterMemecoins and however they
\* overlap: the downloads started so far never outnumber the windows that
\* have begun.
C21_OneFetchPerTtlWindow == catalogGets <= WindowsBegun

(* ---------------- external calls and limiter tokens ---------------- *)
\* lines 197-225: the six service calls made for one pool (fetchInfo,
\* fetchTradingVolume, checkTokenSafety, checkRisk, checkHoneypot,
\* checkContractFeatures)
EXTERNAL_CALLS_PER_POOL == 6

\* the external calls a refresh in flight has issued so far: the catalog
\* download of line 175, six calls for each pool behind it and the
\* fetchInfo of line 197 for the pool it is waiting on
CallsIssued(r) ==
    IF r.pc = "catalog" THEN 1
    ELSE IF r.pc = "pool" THEN 1 + EXTERNAL_CALLS_PER_POOL * (r.i - 1) + 1
    ELSE 0

\* C22: every external discovery or scoring call of a refresh is preceded
\* by the consumption of one limiter token, so the external calls made
\* never exceed the tokens consumed: no refresh in flight has issued more
\* calls than the tokens removed from the limiter so far.
C22_CallsWithinTokens == \A s \in Slots : CallsIssued(rf[s]) <= tokensRemoved

(* ---------------- progress of a trading cycle ---------------- *)
\* What the event loop guarantees: a continuation runs once the promise it
\* awaits is settled.  limiter.removeTokens settles on the limiter's own
\* timer and chooseMemecoin returns at once on an empty list; every other
\* step waits for the answer of an external service, and no call of the
\* program carries a timeout (axios, the RPC connection and the pool reads
\* are used with their defaults), so nothing guarantees those steps.
AutoFairness ==
    /\ \A s \in Slots : WF_vars(RfLimiter(s))
    /\ \A c \in Cycles : WF_vars(AutoNoCandidates(c))

SpecAutoLive == InitAuto /\ [][NextAuto]_vars /\ AutoFairness

\* the limiter has given out every token the model allows
TokensExhausted == tokensRemoved = MaxFetches

\* C23: every autoTrade cycle that starts eventually returns, even when an
\* external service never answers (each call is bounded by a timeout).
C23_CycleEventuallyReturns ==
    \A c \in Cycles : (au[c].pc # "idle") ~> (au[c].pc = "done" \/ TokensExhausted)

(* ---------------- the ledger of one sequential trader ---------------- *)
\* entries one trader may add, one request after the other
MaxLedger == 3

PaperTradeNext(k) == PaperTradeArrives(k, MaxLedger)

NextLedger ==
    \/ \E k \in SoloCallers : PaperTradeNext(k)
    \/ \E k \in SoloCallers : PaperRefreshed(k)
    \/ \E k \in SoloCallers : PaperPrice1(k)
    \/ \E k \in SoloCallers : PaperPrice2(k)
    \/ \E k \in SoloCallers : PaperRespond(k)
    \/ \E k \in SoloCallers : RfLimiter(PaperSlot(k))
    \/ \E k \in SoloCallers : RfCatalogError(PaperSlot(k))
    \/ \E k \in SoloCallers : RfCatalog(PaperSlot(k))
    \/ \E k \in SoloCallers : RfPoolError(PaperSlot(k))
    \/ \E k \in SoloCallers : RfPool(PaperSlot(k))

SpecLedger == InitPaper /\ [][NextLedger]_vars

\* what the entries before entry k bought, or sold, of the candidate of
\* entry k
RECURSIVE AmountBefore(_, _, _)
AmountBefore(action, k, j) ==
    IF j >= k THEN 0
    ELSE (IF /\ paperTrades[j].action = action
             /\ paperTrades[j].memecoin.mint = paperTrades[k].memecoin.mint
          THEN paperTrades[j].amount ELSE 0) + AmountBefore(action, k, j + 1)

\* the holdings when entry k is made: what earlier buys acquired and earlier
\* sells have not disposed of
HoldingsAt(k) == AmountBefore("buy", k, 1) - AmountBefore("sell", k, 1)

\* C24: a simulated sell records amount = min(1000, h), with h the holdings
\* of that candidate at the time of the sell, so that a second sell after
\* the holdings were sold records amount 0 and the amounts sold never
\* exceed the amounts bought.
C24_SellAmountIsHoldings ==
    \A k \in 1..Len(paperTrades) :
        paperTrades[k].action = "sell" =>
            paperTrades[k].amount = Min(MAX_SELL_AMOUNT, HoldingsAt(k))

(* ---------------- the sell branch ---------------- *)
\* cycle c has returned; chooseMemecoin had a list (whose candidates all
\* score >= 80) and read a sell signal at line 599, line 601 read a number
\* below -0.3 and no balance query failed
NegativeCycle(c) ==
    /\ au[c].pc = "done"
    /\ au[c].sel.read
    /\ SellSignal(au[c].sel.sentiment, au[c].sel.volatility)
    /\ au[c].sentiment.ok
    /\ au[c].sentiment.val < -SENTIMENT_THRESHOLD
    /\ \A w \in Wallets : ~bal[c][w].err

\* C25: a cycle whose sentiment readings are all numbers below -0.3, with a
\* non-empty list whose top candidate scores >= 80 and volatility below
\* 0.05, executes a sell when a wallet holds the token: whatever the
\* wallets hold, such a cycle has a candidate and does not end in SKIPPED.
C25_SellOnNegativeSentiment ==
    \A c \in Cycles : NegativeCycle(c) => au[c].outcome # "skipped"

(* ---------------- the wallet of a sell ---------------- *)
\* C26: for a sell, the wallet autoTrade selects is the lowest-indexed
\* wallet whose holdings of the mint of the candidate the cycle chose are
\* > 0: the token quantity on which the wallet is selected is a quantity
\* of that mint.
C26_SellWalletHoldsChosenMint ==
    \A k \in 1..Len(execCalls) :
        LET e == execCalls[k]
        IN  (e.action = "sell" /\ e.cycle \in Cycles) =>
               /\ bal[e.cycle][e.walletIndex].token > 0
               /\ bal[e.cycle][e.walletIndex].ofMint = e.memecoin.mint
               /\ \A w \in Wallets : w < e.walletIndex =>
                      ~(bal[e.cycle][w].token > 0 /\ bal[e.cycle][w].ofMint = e.memecoin.mint)

(* ---------------- two overlapping trading cycles ---------------- *)
\* Two GET /auto_trade requests, in a run in which the sentiment service
\* answers 0.31, every wallet holds 0.005 SOL and no token.
BullishAnswers ==
    [sentiment |-> {[ok |-> TRUE, val |-> SENTIMENT_THRESHOLD + 1]},
     balance |-> {[ok |-> TRUE, val |-> TRADE_AMOUNT * (LAMPORTS_PER_SOL \div 1000)]},
     token |-> {[ok |-> TRUE, val |-> 0]}]

InitOverlap ==
    /\ InitIdle
    /\ answers = BullishAnswers
    /\ svc \in { [id \in PoolIds |-> GoodReply(id, StartClock, 80)],
                 [id \in PoolIds |->
                    IF id = 1 THEN GoodReply(id, StartClock, 80)
                    ELSE [GoodReply(id, StartClock, 80) EXCEPT !.info = InfoReply(FALSE, 0, 0)]] }

OverlapSlots == { AutoSlot(c) : c \in Overlapping }
                    \cup { BalSlot(c, w) : c \in Overlapping, w \in Wallets }

NextOverlap ==
    \/ \E c \in Overlapping : AutoTradeCall(c)
    \/ \E c \in Overlapping : AutoNoCandidates(c)
    \/ \E c \in Overlapping : AutoChoose(c)
    \/ \E c \in Overlapping, w \in Wallets : BalGetBalance(c, w)
    \/ \E c \in Overlapping, w \in Wallets : BalRefreshed(c, w)
    \/ \E c \in Overlapping : AutoNoTrade(c)
    \/ \E c \in Overlapping : AutoExecuteTrade(c)
    \/ \E c \in Overlapping : AutoExecuteFailed(c)
    \/ \E s \in OverlapSlots : RfLimiter(s)
    \/ \E s \in OverlapSlots : RfCatalogError(s)
    \/ \E s \in OverlapSlots : RfCatalog(s)
    \/ \E s \in OverlapSlots : RfPoolError(s)
    \/ \E s \in OverlapSlots : RfPool(s)

SpecOverlap == InitOverlap /\ [][NextOverlap]_vars

\* C27: trading cycles are not mutually excluded: a cycle that buys takes
\* the lowest-indexed wallet that its own balance readings show funded,
\* whether or not another cycle is trading with that wallet, so that two
\* overlapping cycles can both call executeTrade for a buy with the same
\* wallet index.
C27_CyclesNotExcluded ==
    \A k \in 1..Len(execCalls) :
        (execCalls[k].action = "buy" /\ execCalls[k].cycle \in Overlapping) =>
            execCalls[k].walletIndex = availableWallet(bal[execCalls[k].cycle])

\* both cycles are inside executeTrade, buying with the same wallet, and no
\* transaction has been submitted
C27_TwoBuysWithOneWallet ==
    /\ au[1].pc = "exec" /\ au[2].pc = "exec"
    /\ LastCall(1).action = "buy" /\ LastCall(2).action = "buy"
    /\ LastCall(1).walletIndex = LastCall(2).walletIndex
    /\ txSent = <<>>

(* ---------------- a pool whose facts cannot be fetched ---------------- *)
\* C28: an I/O failure while resolving the facts of one pool is handled for
\* that pool alone: the pools of the same catalog answer that the refresh
\* has found to satisfy every predicate are in the list it returns, and in
\* the cache it writes.
C28_PoolFailureIsLocal ==
    [][ \A s \in Slots : (Returns(s) /\ rf[s].pc = "pool") =>
           \A k \in 1..Len(rf[s].memecoins) :
               /\ InList(rf[s].memecoins[k].poolId, rf'[s].ret)
               /\ InList(rf[s].memecoins[k].poolId, cachedMemecoins') ]_vars

(* ---------------- the timestamp of the cache ---------------- *)
\* C29: under any interleaving of overlapping refreshes the timestamp of
\* the cache never decreases: no write stores a timestamp smaller than the
\* one an earlier successful refresh wrote.
C29_LastUpdateNeverDecreases == [][lastUpdate' >= lastUpdate]_vars

(* ---------------- the price of a ledger entry ---------------- *)
\* C30: every TradeResult appended by paperTrade carries a numeric price:
\* whenever the price source returns an error value the fallback 0.00001 is
\* recorded, for every sequence of answers of the price source.
C30_RecordedPriceIsNumeric ==
    \A k \in 1..Len(paperTrades) : paperTrades[k].price.isNumber

(* ---------------- the order of executeTrade (src/index.ts 522-531) -------- *)
\* Lines 522-531 taken by themselves, for every call of executeTrade: the
\* arguments are an action, a listed candidate and a wallet index, and the
\* order is what the lines compute from them and from the answer of
\* checkBalance at line 531.
OrderCandidates ==
    { Facts(id, GoodReply(id, c, score), StartClock) :
        id \in PoolIds, c \in {StartClock, StartClock - MAX_AGE_MS}, score \in {80, 100} }
OrderHeld ==
    {BalanceError} \cup
    { BalanceOf(0, t, SOL_MINT) : t \in {0, 7, MAX_SELL_TOKENS + 1} }

\* executeTrade(action, memecoin, walletIndex) is called
OrderCall(c) ==
    /\ au[c].pc = "idle"
    /\ \E action \in {"buy", "sell"}, memecoin \in OrderCandidates, w \in Wallets :
         /\ execCalls' = Append(execCalls,
                [action |-> action, memecoin |-> memecoin, walletIndex |-> w, cycle |-> c])
         /\ au' = [au EXCEPT ![c].pc = "exec", ![c].chosen = <<memecoin>>]
    /\ UNCHANGED <<cacheVars, envVars, countVars, rf, bal, txSent, paperVars, tr>>

\* lines 522-531: tokenIn, tokenOut and amountIn are computed
OrderBuilt(c) ==
    /\ au[c].pc = "exec"
    /\ \E held \in OrderHeld :
         au' = [au EXCEPT ![c].pc = "done",
                          ![c].exec = [NoTrade EXCEPT !.amountIn =
                              <<AmountIn(LastCall(c).action, LastCall(c).memecoin, held)>>]]
    /\ UNCHANGED <<cacheVars, envVars, countVars, rf, bal, execCalls, txSent, paperVars, tr>>

NextOrder ==
    \/ \E c \in Cycles : OrderCall(c)
    \/ \E c \in Cycles : OrderBuilt(c)

InitOrder ==
    /\ InitProgram
    /\ svc = [id \in PoolIds |-> GoodReply(id, StartClock, 80)]

SpecOrder == InitOrder /\ [][NextOrder]_vars

\* C31: the swap order built by executeTrade has different input and output
\* assets: for a buy the input asset is SOL and the output asset the
\* candidate's token, for a sell the input asset is the candidate's token
\* and the output asset SOL.
C31_OrderAssetsDiffer ==
    \A c \in Cycles :
       au[c].exec.amountIn # <<>> =>
          LET order == au[c].exec.amountIn[1]
              call == LastCall(c)
          IN  /\ order.tokenIn # order.tokenOut
              /\ call.action = "buy" =>
                    order.tokenIn = SOL_MINT /\ order.tokenOut = call.memecoin.mint
              /\ call.action = "sell" =>
                    order.tokenIn = call.memecoin.mint /\ order.tokenOut = SOL_MINT

====
